---- MODULE Spec2Model ----
(***************************************************************************)
(* Model of the BinanceTool market-ticker service.                         *)
(*                                                                         *)
(*   src/services/binanceService.ts   the current streaming service        *)
(*   src/unnamed/part_001             two earlier revisions of the service *)
(*                                    (aggregator cascade, parallel        *)
(*                                    two-call snapshot)                   *)
(*   src/api/snapshot.js              the server-side batch aggregator     *)
(*                                                                         *)
(* Numbers are fixed-point integers in units of 10^-FracDigits; text on    *)
(* the wire is a tuple of one-character strings, so that parseFloat is a   *)
(* real conversion.  NaN and undefined are distinguished values.           *)
(***************************************************************************)
EXTENDS Integers, Sequences, FiniteSets, TLC

\* ------------------------------------------------------------------------
\* Bounds of the model
\* ------------------------------------------------------------------------
\* fractional decimal digits kept by the fixed-point numbers
FracDigits == 2
\* sockets the service may construct in one behaviour
MaxSockets == 3
\* cap of the reconnectAttempt counter
MaxAttempt == 7
\* calls of connect() in one behaviour
MaxConnects == 2
\* items in the data array of one stream frame
MaxItems == 2
\* registered subscriber callbacks
MaxSubscribers == 2
\* stream frames decoded in one behaviour
MaxFrames == 2
\* entries of the 24h ticker list the batch aggregator receives
MaxTickers == 3
\* largest selection limit of the small deployment tiers
MaxTopN == 3
\* largest batch size of the small deployment tiers
MaxBatchSize == 2

Scale == 10 ^ FracDigits

\* ------------------------------------------------------------------------
\* JavaScript values
\* ------------------------------------------------------------------------
\* a number, NaN and undefined as values of one type
Num(v) == <<"number", v>>
NaN == <<"NaN", 0>>
Undefined == <<"undefined", 0>>

Min(a, b) == IF a <= b THEN a ELSE b

IsDigit(c) == c \in {"0", "1", "2", "3", "4", "5", "6", "7", "8", "9"}

DigitValue(c) ==
  CASE c = "0" -> 0 [] c = "1" -> 1 [] c = "2" -> 2 [] c = "3" -> 3
    [] c = "4" -> 4 [] c = "5" -> 5 [] c = "6" -> 6 [] c = "7" -> 7
    [] c = "8" -> 8 [] c = "9" -> 9

RECURSIVE DigitRun(_, _)
\* length of the longest run of digits of s that starts at index i
DigitRun(s, i) ==
  IF i <= Len(s) /\ IsDigit(s[i]) THEN 1 + DigitRun(s, i + 1) ELSE 0

RECURSIVE DigitsValue(_, _, _)
\* value of the n digits of s that start at index i
DigitsValue(s, i, n) ==
  IF n = 0 THEN 0 ELSE DigitsValue(s, i, n - 1) * 10 + DigitValue(s[i + n - 1])

\* parseFloat of a text (a tuple of characters): optional sign, digits,
\* optional fraction; the longest numeric prefix is converted, NaN when there
\* is none.  Fraction digits beyond FracDigits and exponents are outside the
\* domain of the model.
parseFloat(s) ==
  LET signed == Len(s) >= 1 /\ s[1] \in {"-", "+"}
      neg    == Len(s) >= 1 /\ s[1] = "-"
      i0     == IF signed THEN 2 ELSE 1
      nInt   == DigitRun(s, i0)
      dot    == i0 + nInt
      hasDot == dot <= Len(s) /\ s[dot] = "."
      nFrac  == IF hasDot THEN DigitRun(s, dot + 1) ELSE 0
      kept   == Min(nFrac, FracDigits)
      mag    == DigitsValue(s, i0, nInt) * Scale
                  + DigitsValue(s, dot + 1, kept) * 10 ^ (FracDigits - kept)
  IN  IF nInt + nFrac = 0 THEN NaN ELSE IF neg THEN Num(0 - mag) ELSE Num(mag)

\* sub occurs in s at index i
IsPrefixAt(s, sub, i) ==
  \A k \in 1..Len(sub) : i + k - 1 <= Len(s) /\ s[i + k - 1] = sub[k]

\* String.prototype.includes
includes(s, sub) == \E i \in 1..(Len(s) + 1) : IsPrefixAt(s, sub, i)

\* ------------------------------------------------------------------------
\* Inputs of the environment
\* ------------------------------------------------------------------------
Symbols == {"BTCUSDT", "ETHBTC"}
Callbacks == {"cb1", "cb2"}
Revisions == {"current", "cascade", "parallel"}

\* the three subscriptions of the combined stream
STREAM_24H == <<"!", "t", "i", "c", "k", "e", "r", "@", "a", "r", "r">>
STREAM_1H == <<"!", "t", "i", "c", "k", "e", "r", "_", "1", "h", "@", "a", "r", "r">>
STREAM_4H == <<"!", "t", "i", "c", "k", "e", "r", "_", "4", "h", "@", "a", "r", "r">>
StreamNames == {STREAM_24H, STREAM_1H, STREAM_4H}

\* payloads of a stream item: last price c, quote volume q, percent change P
TICK_A == [c |-> <<"1">>, q |-> <<"3">>, P |-> <<"0", ".", "5">>]
TICK_B == [c |-> <<"2">>, q |-> <<"4">>, P |-> <<"-", "1", ".", "2", "5">>]

\* the payloads the feed sends for a symbol: two for the first symbol, so that
\* an older and a newer value differ, one for the other
Ticks(sym) == IF sym = "BTCUSDT" THEN {TICK_A, TICK_B} ELSE {TICK_A}

StreamItems ==
  UNION { { [isNull |-> FALSE, s |-> sym, c |-> t.c, q |-> t.q, P |-> t.P] : t \in Ticks(sym) } :
            sym \in Symbols }

\* a null entry of the data array: the handler throws on item.s
NullItem == [isNull |-> TRUE, s |-> "", c |-> <<>>, q |-> <<>>, P |-> <<>>]
FrameItems == StreamItems \cup {NullItem}

RECURSIVE SeqsUpTo(_, _)
\* all sequences over S of length at most n
SeqsUpTo(S, n) ==
  IF n = 0 THEN {<<>>}
  ELSE LET shorter == SeqsUpTo(S, n - 1)
       IN  shorter \cup { Append(q, x) : q \in shorter, x \in S }

\* message.data: absent, a single item, or an array of items
DataPayloads ==
  {[kind |-> "absent", items |-> <<>>]}
    \cup { [kind |-> "single", items |-> <<it>>] : it \in StreamItems }
    \cup { [kind |-> "array", items |-> its] : its \in SeqsUpTo(FrameItems, MaxItems) }

\* event.data: text that JSON.parse rejects, or the text of a message whose
\* stream name may be missing
Frames ==
  { [parses |-> FALSE, hasStream |-> FALSE, stream |-> <<>>,
     data |-> [kind |-> "absent", items |-> <<>>]] }
    \cup { [parses |-> TRUE, hasStream |-> TRUE, stream |-> n, data |-> d] :
             n \in StreamNames, d \in DataPayloads }
    \cup { [parses |-> TRUE, hasStream |-> FALSE, stream |-> <<>>, data |-> d] :
             d \in {p \in DataPayloads : p.kind # "array"} }

\* ------------------------------------------------------------------------
\* State
\* ------------------------------------------------------------------------
VARIABLES
  revision,            \* which revision of the service is running
  ws,                  \* this.ws: id of the current socket, 0 for null
  sockets,             \* the WebSocket objects the service constructed, by id
  reconnectAttempt,    \* this.reconnectAttempt
  reconnectTimeoutId,  \* this.reconnectTimeoutId: "null", "armed" or "fired"
  timers,              \* number of reconnect timers pending in the event loop
  timerDelay,          \* delay given to the latest setTimeout
  endpointIndex,       \* this.endpointIndex
  tickerMap,           \* this.tickerMap: a function on the symbols it holds
  subscribers,         \* this.subscribers
  pendingFetches,      \* this.pendingFetches
  lazyCalls,           \* per symbol: fetchDetailedStats calls awaiting their requests
  snapRuns,            \* the runs of fetchInitialSnapshot, one per connect()
  invoked,             \* the subscriber callbacks the last step invoked, in order
  frames,              \* number of frames decoded
  disconnected,        \* disconnect() returned and connect() was not called since
  quiet,               \* disconnect() returned and no public operation was called since
  consecFailures,      \* connection failures since start or since the last socket open
  lastItem,            \* per symbol: the wire values last merged from the stream
  delivered,           \* the first copy of tickerMap handed to a subscriber
  handlerPc,           \* snapshot.js handler: "idle", "ticker", "batches" or "done"
  TOP_N,               \* handler: TOP_N of the deployment
  BATCH_SIZE,          \* handler: BATCH_SIZE of the deployment
  tickerRes,           \* handler: tickerRes, the 24h response once its fetch has resolved
  tickerData,          \* handler: tickerData, the body of the 24h response
  validTickers,        \* handler: validTickers, sorted
  batchCalls,          \* handler: the calls of processBatch, by batch
  map1h,               \* handler: map1h
  map4h,               \* handler: map4h
  partialErrors,       \* handler: partialErrors
  response,            \* handler: what it answered
  timeoutTimers,       \* handler: armed timers of fetchWithTimeout
  inFlight,            \* handler: upstream requests issued and not settled
  symbolArg,           \* the symbol of the latest call of getQuoteAsset
  quoteResult          \* what that call returned

connVars == <<ws, sockets, reconnectAttempt, reconnectTimeoutId, timers,
              timerDelay, endpointIndex, consecFailures>>
storeVars == <<tickerMap, lastItem>>
lazyVars == <<pendingFetches, lazyCalls>>
handlerVars == <<handlerPc, TOP_N, BATCH_SIZE, tickerRes, tickerData, validTickers, batchCalls, map1h, map4h,
                 partialErrors, response, timeoutTimers, inFlight>>
lookupVars == <<symbolArg, quoteResult>>
serviceVars == <<revision, delivered, connVars, storeVars, lazyVars, subscribers, snapRuns,
                 invoked, frames, disconnected, quiet>>
vars == <<revision, ws, sockets, reconnectAttempt, reconnectTimeoutId, timers,
          timerDelay, endpointIndex, tickerMap, subscribers, pendingFetches, lazyCalls,
          snapRuns, invoked, frames, disconnected, quiet, consecFailures, lastItem,
          delivered, handlerPc, TOP_N, BATCH_SIZE, tickerRes, tickerData, validTickers, batchCalls, map1h, map4h,
          partialErrors, response, timeoutTimers, inFlight, symbolArg, quoteResult>>

CONNECTING == "CONNECTING"
OPEN == "OPEN"
CLOSING == "CLOSING"
CLOSED == "CLOSED"

\* number of entries of BASE_WS_URLS
BASE_WS_URLS_length == IF revision = "current" THEN 4 ELSE 3

\* this.maxReconnectDelay, in milliseconds
maxReconnectDelay == 10000

\* ------------------------------------------------------------------------
\* notify / subscribers
\* ------------------------------------------------------------------------
\* The callbacks a notify pass invokes.  throwAt = 0: no callback throws;
\* throwAt = k: the k-th callback throws, which aborts the forEach.
notify(subs, throwAt) ==
  IF throwAt = 0 THEN subs ELSE SubSeq(subs, 1, throwAt)

ThrowChoices(subs) == 0..Len(subs)

Has(map, s) == s \in DOMAIN map

\* Map.prototype.set with a slip: the entries of the other keys are lost
MapSet_DropsOthers(map, s, rec) == [x \in {s} |-> rec]

\* Map.prototype.set
MapSet(map, s, rec) ==
  [x \in DOMAIN map \cup {s} |-> IF x = s THEN rec ELSE map[x]]

\* ------------------------------------------------------------------------
\* ws.onmessage: decode one frame and merge it into tickerMap
\* ------------------------------------------------------------------------
\* the record a frame creates for a symbol tickerMap does not hold
\* newRecord with a slip: the two short windows start at zero like the rest
newRecord_ZeroWindows(sym) ==
  [symbol |-> sym, price |-> Num(0), volume |-> Num(0), changePercent24h |-> Num(0),
   changePercent1h |-> Num(0), changePercent4h |-> Num(0)]

newRecord(sym) ==
  [symbol |-> sym, price |-> Num(0), volume |-> Num(0), changePercent24h |-> Num(0),
   changePercent1h |-> Undefined, changePercent4h |-> Undefined]

\* mergeItem with a slip: an item of any window writes the volume
mergeItem_VolumeInEveryWindow(map, item, is1h, is4h) ==
  LET existing == IF Has(map, item.s) THEN map[item.s] ELSE newRecord(item.s)
      updated  ==
        IF ~is1h /\ ~is4h
          THEN [existing EXCEPT !.price = parseFloat(item.c),
                                !.volume = parseFloat(item.q),
                                !.changePercent24h = parseFloat(item.P)]
        ELSE IF is1h
          THEN [existing EXCEPT !.price = parseFloat(item.c),
                                !.volume = parseFloat(item.q),
                                !.changePercent1h = parseFloat(item.P)]
        ELSE [existing EXCEPT !.price = parseFloat(item.c),
                              !.volume = parseFloat(item.q),
                              !.changePercent4h = parseFloat(item.P)]
  IN  MapSet(map, item.s, updated)

\* mergeItem with a slip: only a 24h item refreshes the price
mergeItem_StalePrice(map, item, is1h, is4h) ==
  LET existing == IF Has(map, item.s) THEN map[item.s] ELSE newRecord(item.s)
      updated  ==
        IF ~is1h /\ ~is4h
          THEN [existing EXCEPT !.price = parseFloat(item.c),
                                !.volume = parseFloat(item.q),
                                !.changePercent24h = parseFloat(item.P)]
        ELSE IF is1h
          THEN [existing EXCEPT !.changePercent1h = parseFloat(item.P)]
        ELSE [existing EXCEPT !.changePercent4h = parseFloat(item.P)]
  IN  MapSet(map, item.s, updated)

\* body of rawData.forEach for one item
mergeItem(map, item, is1h, is4h) ==
  LET symbol   == item.s
      existing == IF Has(map, symbol) THEN map[symbol] ELSE newRecord(item.s)
      is24h    == ~is1h /\ ~is4h
      updated  ==
        IF is24h
          THEN [existing EXCEPT !.price = parseFloat(item.c),
                                !.volume = parseFloat(item.q),
                                !.changePercent24h = parseFloat(item.P)]
        ELSE IF is1h
          THEN [existing EXCEPT !.price = parseFloat(item.c),
                                !.changePercent1h = parseFloat(item.P)]
        ELSE IF is4h
          THEN [existing EXCEPT !.price = parseFloat(item.c),
                                !.changePercent4h = parseFloat(item.P)]
        ELSE existing
  IN  MapSet(map, symbol, updated)

RECURSIVE mergeItems(_, _, _, _, _)
\* rawData.forEach from item i on: every item is committed as it is merged; a
\* null item throws and leaves the items after it unmerged
mergeItems(map, items, i, is1h, is4h) ==
  IF i > Len(items) THEN [map |-> map, threw |-> FALSE]
  ELSE IF items[i].isNull THEN [map |-> map, threw |-> TRUE]
  ELSE mergeItems(mergeItem(map, items[i], is1h, is4h), items, i + 1, is1h, is4h)

\* onmessage with a slip: a message without data still reaches notify
onmessage_NotifyWithoutData(map, frame) ==
  IF ~frame.parses THEN [map |-> map, notifies |-> FALSE]
  ELSE IF frame.data.kind = "absent" THEN [map |-> map, notifies |-> TRUE]
  ELSE IF ~frame.hasStream THEN [map |-> map, notifies |-> FALSE]
  ELSE LET r == mergeItems(map, frame.data.items, 1,
                           includes(frame.stream, <<"1", "h">>),
                           includes(frame.stream, <<"4", "h">>))
       IN  [map |-> r.map, notifies |-> ~r.threw]

\* onmessage with a slip: "4h" is looked for before "1h"
onmessage_FourHourFirst(map, frame) ==
  IF ~frame.parses THEN [map |-> map, notifies |-> FALSE]
  ELSE IF frame.data.kind = "absent" THEN [map |-> map, notifies |-> FALSE]
  ELSE IF ~frame.hasStream THEN [map |-> map, notifies |-> FALSE]
  ELSE LET is4h == includes(frame.stream, <<"4", "h">>)
           is1h == includes(frame.stream, <<"1", "h">>) /\ ~is4h
           r    == mergeItems(map, frame.data.items, 1, is1h, is4h)
       IN  [map |-> r.map, notifies |-> ~r.threw]

\* the handler on one frame: the map afterwards and whether notify is reached
onmessage(map, frame) ==
  IF ~frame.parses THEN [map |-> map, notifies |-> FALSE]
  ELSE IF frame.data.kind = "absent" THEN [map |-> map, notifies |-> FALSE]
  ELSE IF ~frame.hasStream THEN [map |-> map, notifies |-> FALSE]
  ELSE LET is1h == includes(frame.stream, <<"1", "h">>)
           is4h == includes(frame.stream, <<"4", "h">>)
           r    == mergeItems(map, frame.data.items, 1, is1h, is4h)
       IN  [map |-> r.map, notifies |-> ~r.threw]

\* ---- history of the stream, kept apart from the handler ----
NoText == <<>>
noItem == [c |-> NoText, q24 |-> NoText, P24 |-> NoText, P1h |-> NoText, P4h |-> NoText,
           other |-> FALSE]

\* the wire values of one merged item, by the window the name of its stream
\* stands for: "1h" in the name, else "4h" in the name, else the 24h window
noteItem(h, item, stream) ==
  LET is1h == includes(stream, <<"1", "h">>)
      is4h == includes(stream, <<"4", "h">>)
      e == h[item.s]
      e2 == IF e.other THEN e
            ELSE IF ~is1h /\ ~is4h
              THEN [e EXCEPT !.c = item.c, !.q24 = item.q, !.P24 = item.P]
            ELSE IF is1h
              THEN [e EXCEPT !.c = item.c, !.P1h = item.P]
            ELSE [e EXCEPT !.c = item.c, !.P4h = item.P]
  IN  [h EXCEPT ![item.s] = e2]

RECURSIVE noteItems(_, _, _, _)
noteItems(h, items, i, stream) ==
  IF i > Len(items) \/ items[i].isNull THEN h
  ELSE noteItems(noteItem(h, items[i], stream), items, i + 1, stream)

noteFrame(h, frame) ==
  IF frame.parses /\ frame.hasStream /\ frame.data.kind # "absent"
    THEN noteItems(h, frame.data.items, 1, frame.stream)
    ELSE h

\* another producer wrote the record of sym
noteOther(h, syms) ==
  [x \in Symbols |-> IF x \in syms THEN [noItem EXCEPT !.other = TRUE] ELSE h[x]]

\* ------------------------------------------------------------------------
\* Connection: connectWebSocket, scheduleReconnect, disconnect
\* ------------------------------------------------------------------------
Conn ==
  [ws |-> ws, sockets |-> sockets, reconnectAttempt |-> reconnectAttempt,
   reconnectTimeoutId |-> reconnectTimeoutId, timers |-> timers,
   timerDelay |-> timerDelay, endpointIndex |-> endpointIndex]

SetConn(c) ==
  /\ ws' = c.ws
  /\ sockets' = c.sockets
  /\ reconnectAttempt' = c.reconnectAttempt
  /\ reconnectTimeoutId' = c.reconnectTimeoutId
  /\ timers' = c.timers
  /\ timerDelay' = c.timerDelay
  /\ endpointIndex' = c.endpointIndex

\* delay with a slip: the delay doubles with every attempt
delay_Doubling(attempt) ==
  Min(1000 * 2 ^ attempt, maxReconnectDelay) * Scale

\* Math.min(1000 * Math.pow(1.5, attempt), this.maxReconnectDelay), in units
\* of 10^-FracDigits ms
delay(attempt) ==
  IF 1000 * 3 ^ attempt <= maxReconnectDelay * 2 ^ attempt
    THEN (1000 * Scale * 3 ^ attempt) \div (2 ^ attempt)
    ELSE maxReconnectDelay * Scale

\* clearTimeout with a slip: the pending timer is left to run
clearTimeout_Forgets(n, id) == n

\* clearTimeout(id) on the pending-timer count
clearTimeout(n, id) == IF id = "armed" THEN n - 1 ELSE n

scheduleReconnect(c) ==
  [c EXCEPT !.endpointIndex = (c.endpointIndex + 1) % BASE_WS_URLS_length,
            !.timerDelay = delay(c.reconnectAttempt),
            !.reconnectAttempt = c.reconnectAttempt + 1,
            !.timers = (IF c.reconnectTimeoutId # "null"
                          THEN clearTimeout(c.timers, c.reconnectTimeoutId)
                          ELSE c.timers) + 1,
            !.reconnectTimeoutId = "armed"]

\* alreadyConnected with a slip: a socket that is still connecting does not count
alreadyConnected_OpenOnly(c) ==
  c.ws # 0 /\ c.sockets[c.ws].readyState = OPEN

\* the idempotence guard at the head of connectWebSocket
alreadyConnected(c) ==
  c.ws # 0 /\ c.sockets[c.ws].readyState \in {OPEN, CONNECTING}

\* url: the index in BASE_WS_URLS of the endpoint the socket connects to
newSocket == [readyState |-> CONNECTING, onclose |-> TRUE, onerror |-> TRUE, url |-> 0]

\* throws: new WebSocket(url) throws
connectWebSocket(c, throws) ==
  IF alreadyConnected(c) THEN c
  ELSE
    LET c1 == IF c.reconnectTimeoutId # "null"
                THEN [c EXCEPT !.timers = clearTimeout(c.timers, c.reconnectTimeoutId),
                               !.reconnectTimeoutId = "null"]
                ELSE c
    IN  IF throws THEN scheduleReconnect(c1)
        ELSE [c1 EXCEPT !.sockets = Append(c1.sockets, [newSocket EXCEPT !.url = c1.endpointIndex]),
                        !.ws = Len(c1.sockets) + 1]

\* WebSocket.prototype.close
close(socks, i) ==
  IF socks[i].readyState \in {CONNECTING, OPEN}
    THEN [socks EXCEPT ![i].readyState = CLOSING]
    ELSE socks

disconnect(c) ==
  LET c1 == IF c.reconnectTimeoutId # "null"
              THEN [c EXCEPT !.timers = clearTimeout(c.timers, c.reconnectTimeoutId),
                             !.reconnectTimeoutId = "null"]
              ELSE c
  IN  IF c1.ws # 0
        THEN [c1 EXCEPT !.sockets = close([c1.sockets EXCEPT ![c1.ws].onclose = FALSE,
                                                             ![c1.ws].onerror = FALSE],
                                          c1.ws),
                        !.ws = 0]
        ELSE c1

\* onclose with a slip: the socket reference is kept
onclose_KeepSocket(c) == scheduleReconnect(c)

\* ws.onclose
onclose(c) == scheduleReconnect([c EXCEPT !.ws = 0])

\* ws.onerror
onerror(c) ==
  IF c.ws # 0 /\ c.sockets[c.ws].readyState # CLOSED
    THEN [c EXCEPT !.sockets = close(c.sockets, c.ws)]
    ELSE c

\* ws.onopen
onopen(c) == [c EXCEPT !.reconnectAttempt = 0]

\* ------------------------------------------------------------------------
\* REST inputs
\* ------------------------------------------------------------------------
\* a null in a JSON body for a numeric field
NullNum == <<"null", 0>>

\* entries of /api/v3/ticker/24hr
RestItems ==
  { [isNull |-> FALSE, symbol |-> sym, count |-> n, lastPrice |-> <<"7">>,
     quoteVolume |-> <<"8">>, priceChangePercent |-> <<"9", ".", "5">>] :
      sym \in Symbols, n \in {0, 5} }

NullRestItem ==
  [isNull |-> TRUE, symbol |-> "", count |-> 0, lastPrice |-> <<>>,
   quoteVolume |-> <<>>, priceChangePercent |-> <<>>]

\* how a request can fail: the fetch rejects, the status is not ok, the body
\* does not decode to an array
FailureKinds == {"reject", "status", "malformed"}

TickerResponses ==
  { [kind |-> k, items |-> <<>>] : k \in FailureKinds }
    \cup { [kind |-> "ok", items |-> its] :
             its \in SeqsUpTo(RestItems \cup {NullRestItem}, MaxItems) }

\* /api/v3/exchangeInfo: the status of every symbol
InfoResponses ==
  { [kind |-> k, status |-> [sym \in Symbols |-> "BREAK"]] : k \in FailureKinds }
    \cup { [kind |-> "ok", status |-> st] : st \in [Symbols -> {"TRADING", "BREAK"}] }

\* records of the aggregator endpoint /api/snapshot
AggRecords ==
  { [isNull |-> FALSE, symbol |-> sym, price |-> Num(6 * Scale), volume |-> Num(8 * Scale),
     changePercent24h |-> Num(9 * Scale), changePercent1h |-> h1, changePercent4h |-> h4] :
      sym \in Symbols, h1 \in {NullNum, Num(3 * Scale)}, h4 \in {NullNum, Num(4 * Scale)} }

NullAggRecord ==
  [isNull |-> TRUE, symbol |-> "", price |-> NullNum, volume |-> NullNum,
   changePercent24h |-> NullNum, changePercent1h |-> NullNum, changePercent4h |-> NullNum]

AggResponses ==
  { [kind |-> k, items |-> <<>>] : k \in FailureKinds }
    \cup { [kind |-> "ok", items |-> its] :
             its \in SeqsUpTo(AggRecords \cup {NullAggRecord}, MaxItems) }

\* /api/v3/ticker?symbol=..&windowSize=..: hasBody is FALSE for a JSON body
\* that is falsy (null)
WindowResponses ==
  { [kind |-> k, hasBody |-> FALSE, priceChangePercent |-> <<>>] : k \in {"reject", "status"} }
    \cup { [kind |-> "ok", hasBody |-> FALSE, priceChangePercent |-> <<>>] }
    \cup { [kind |-> "ok", hasBody |-> TRUE, priceChangePercent |-> t] :
             t \in {<<"3", ".", "2", "5">>} }

\* ------------------------------------------------------------------------
\* fetchInitialSnapshot, current revision: one 24h call per API domain
\* ------------------------------------------------------------------------
\* number of entries of apiDomains
apiDomains_length == 3

Run(pc, domain, trading, notified) ==
  [pc |-> pc, domain |-> domain, trading |-> trading, notified |-> notified]

restRecord(item) ==
  [symbol |-> item.symbol,
   price |-> parseFloat(item.lastPrice),
   volume |-> parseFloat(item.quoteVolume),
   changePercent24h |-> parseFloat(item.priceChangePercent),
   changePercent1h |-> Undefined,
   changePercent4h |-> Undefined]

RECURSIVE populateCurrent(_, _, _)
\* data.forEach of the current revision, from item i on
populateCurrent(map, items, i) ==
  IF i > Len(items) THEN [map |-> map, threw |-> FALSE]
  ELSE IF items[i].isNull THEN [map |-> map, threw |-> TRUE]
  ELSE IF items[i].count = 0 THEN populateCurrent(map, items, i + 1)
  ELSE populateCurrent(MapSet(map, items[i].symbol, restRecord(items[i])), items, i + 1)

\* One turn of the loop over apiDomains, entered when the response of domain
\* run.domain arrives; t1 and t2 choose the throwing subscriber of the notify
\* after a successful load and of the final notify after the loop.
snapshotCurrent(map, run, resp, subs, t1, t2) ==
  LET r       == IF resp.kind = "ok" THEN populateCurrent(map, resp.items, 1)
                 ELSE [map |-> map, threw |-> TRUE]
      loaded  == ~r.threw
      pass1   == IF loaded THEN notify(subs, t1) ELSE <<>>
      caught  == r.threw \/ (loaded /\ t1 # 0)
      n1      == IF loaded THEN 1 ELSE 0
      last    == run.domain + 1 >= apiDomains_length
  IN  IF ~caught
        THEN [map |-> r.map, run |-> Run("done", run.domain, {}, run.notified + n1),
              invoked |-> pass1]
      ELSE IF ~last
        THEN [map |-> r.map, run |-> Run("ticker24", run.domain + 1, {}, run.notified + n1),
              invoked |-> pass1]
      ELSE [map |-> r.map, run |-> Run("done", run.domain, {}, run.notified + n1 + 1),
            invoked |-> pass1 \o notify(subs, t2)]

\* ------------------------------------------------------------------------
\* fetchInitialSnapshot, cascade revision: aggregator endpoint, then
\* fallbackClientSideSnapshot
\* ------------------------------------------------------------------------
\* record.changePercent1h ?? undefined
orUndefined(v) == IF v = NullNum THEN Undefined ELSE v

aggRecord(record) ==
  [symbol |-> record.symbol, price |-> record.price, volume |-> record.volume,
   changePercent24h |-> record.changePercent24h,
   changePercent1h |-> orUndefined(record.changePercent1h),
   changePercent4h |-> orUndefined(record.changePercent4h)]

RECURSIVE populateAggregator(_, _, _)
populateAggregator(map, items, i) ==
  IF i > Len(items) THEN [map |-> map, threw |-> FALSE]
  ELSE IF items[i].isNull THEN [map |-> map, threw |-> TRUE]
  ELSE populateAggregator(MapSet(map, items[i].symbol, aggRecord(items[i])), items, i + 1)

\* the response of /api/snapshot arrives
snapshotAggregator(map, run, resp, subs, t1) ==
  LET r      == IF resp.kind = "ok" THEN populateAggregator(map, resp.items, 1)
                ELSE [map |-> map, threw |-> TRUE]
      loaded == ~r.threw
      pass1  == IF loaded THEN notify(subs, t1) ELSE <<>>
      caught == r.threw \/ (loaded /\ t1 # 0)
      n1     == IF loaded THEN 1 ELSE 0
  IN  IF ~caught
        THEN [map |-> r.map, run |-> Run("done", 0, {}, run.notified + n1), invoked |-> pass1]
        ELSE [map |-> r.map, run |-> Run("exchangeInfo", 0, {}, run.notified + n1),
              invoked |-> pass1]

\* the symbols whose status in the exchangeInfo body is TRADING
tradingSymbols(info) == {sym \in Symbols : info.status[sym] = "TRADING"}

\* fallbackClientSideSnapshot: the response of exchangeInfo arrives
fallbackInfo(map, run, resp, subs, t1) ==
  IF resp.kind = "ok"
    THEN [map |-> map, run |-> Run("ticker24", 0, tradingSymbols(resp), run.notified),
          invoked |-> <<>>]
    ELSE [map |-> map, run |-> Run("done", 0, {}, run.notified + 1),
          invoked |-> notify(subs, t1)]

RECURSIVE populateFallback(_, _, _, _)
populateFallback(map, items, i, trading) ==
  IF i > Len(items) THEN [map |-> map, threw |-> FALSE]
  ELSE IF items[i].isNull THEN [map |-> map, threw |-> TRUE]
  ELSE IF items[i].symbol \notin trading THEN populateFallback(map, items, i + 1, trading)
  ELSE populateFallback(MapSet(map, items[i].symbol, restRecord(items[i])), items, i + 1,
                        trading)

\* fallbackClientSideSnapshot: the response of the 24h ticker arrives
fallbackTicker(map, run, resp, subs, t1, t2) ==
  LET r      == IF resp.kind = "ok" THEN populateFallback(map, resp.items, 1, run.trading)
                ELSE [map |-> map, threw |-> TRUE]
      loaded == ~r.threw
      pass1  == IF loaded THEN notify(subs, t1) ELSE <<>>
      caught == r.threw \/ (loaded /\ t1 # 0)
      n1     == IF loaded THEN 1 ELSE 0
  IN  IF ~caught
        THEN [map |-> r.map, run |-> Run("done", 0, {}, run.notified + n1), invoked |-> pass1]
        ELSE [map |-> r.map, run |-> Run("done", 0, {}, run.notified + n1 + 1),
              invoked |-> pass1 \o notify(subs, t2)]

\* ------------------------------------------------------------------------
\* fetchInitialSnapshot, parallel revision: exchangeInfo and 24h ticker at once
\* ------------------------------------------------------------------------
parallelRecord(item) ==
  [symbol |-> item.symbol,
   price |-> parseFloat(item.lastPrice),
   volume |-> parseFloat(item.quoteVolume),
   changePercent24h |-> parseFloat(item.priceChangePercent),
   changePercent1h |-> Undefined,
   changePercent4h |-> Undefined]

\* mergeParallel with a slip: a record the stream already wrote is kept
mergeParallel_KeepsExisting(map, item) ==
  IF ~Has(map, item.symbol) THEN MapSet(map, item.symbol, parallelRecord(item)) ELSE map

mergeParallel(map, item) ==
  LET rec == parallelRecord(item)
  IN  IF ~Has(map, item.symbol) THEN MapSet(map, item.symbol, rec)
      ELSE [map EXCEPT ![item.symbol].price = rec.price,
                       ![item.symbol].volume = rec.volume,
                       ![item.symbol].changePercent24h = rec.changePercent24h]

RECURSIVE populateParallel(_, _, _, _)
populateParallel(map, items, i, active) ==
  IF i > Len(items) THEN [map |-> map, threw |-> FALSE]
  ELSE IF items[i].isNull THEN [map |-> map, threw |-> TRUE]
  ELSE IF items[i].symbol \notin active THEN populateParallel(map, items, i + 1, active)
  ELSE populateParallel(mergeParallel(map, items[i]), items, i + 1, active)

\* both responses have arrived (or one request was rejected)
snapshotParallel(map, run, info, resp, subs, t1) ==
  IF info.kind # "ok" \/ resp.kind # "ok"
    THEN [map |-> map, run |-> Run("done", 0, {}, run.notified), invoked |-> <<>>]
    ELSE LET r == populateParallel(map, resp.items, 1, tradingSymbols(info))
         IN  IF r.threw
               THEN [map |-> r.map, run |-> Run("done", 0, {}, run.notified),
                     invoked |-> <<>>]
               ELSE [map |-> r.map, run |-> Run("done", 0, {}, run.notified + 1),
                     invoked |-> notify(subs, t1)]

\* the first await of fetchInitialSnapshot, by revision
firstRun ==
  IF revision = "current" THEN Run("ticker24", 0, {}, 0)
  ELSE IF revision = "cascade" THEN Run("aggregator", 0, {}, 0)
  ELSE Run("both", 0, {}, 0)

\* ------------------------------------------------------------------------
\* fetchDetailedStats (current revision)
\* ------------------------------------------------------------------------
\* r.ok ? r.json() : null, as a truthy body or nothing
windowResult(resp) == resp.kind = "ok" /\ resp.hasBody

\* applyDetails with a slip: the results are written whatever the record holds
applyDetails_Overwrite(map, symbol, res1h, res4h) ==
  IF res1h.kind = "reject" \/ res4h.kind = "reject" THEN [map |-> map, updated |-> FALSE]
  ELSE IF ~Has(map, symbol) THEN [map |-> map, updated |-> FALSE]
  ELSE
    LET item == map[symbol]
        set1 == windowResult(res1h)
        set4 == windowResult(res4h)
        i1   == IF set1
                  THEN [item EXCEPT !.changePercent1h = parseFloat(res1h.priceChangePercent)]
                  ELSE item
        i4   == IF set4
                  THEN [i1 EXCEPT !.changePercent4h = parseFloat(res4h.priceChangePercent)]
                  ELSE i1
    IN  [map |-> MapSet(map, symbol, i4), updated |-> set1 \/ set4]

\* applyDetails with a slip: a symbol without a record gets one
applyDetails_CreatesRecord(map, symbol, res1h, res4h) ==
  IF res1h.kind = "reject" \/ res4h.kind = "reject" THEN [map |-> map, updated |-> FALSE]
  ELSE
    LET item == IF Has(map, symbol) THEN map[symbol] ELSE newRecord(symbol)
        set1 == windowResult(res1h) /\ item.changePercent1h = Undefined
        set4 == windowResult(res4h) /\ item.changePercent4h = Undefined
        i1   == IF set1
                  THEN [item EXCEPT !.changePercent1h = parseFloat(res1h.priceChangePercent)]
                  ELSE item
        i4   == IF set4
                  THEN [i1 EXCEPT !.changePercent4h = parseFloat(res4h.priceChangePercent)]
                  ELSE i1
    IN  [map |-> IF set1 \/ set4 THEN MapSet(map, symbol, i4) ELSE map, updated |-> set1 \/ set4]

\* the code after the await: the map afterwards and whether notify is called
applyDetails(map, symbol, res1h, res4h) ==
  IF res1h.kind = "reject" \/ res4h.kind = "reject" THEN [map |-> map, updated |-> FALSE]
  ELSE IF ~Has(map, symbol) THEN [map |-> map, updated |-> FALSE]
  ELSE
    LET item == map[symbol]
        set1 == windowResult(res1h) /\ item.changePercent1h = Undefined
        set4 == windowResult(res4h) /\ item.changePercent4h = Undefined
        i1   == IF set1
                  THEN [item EXCEPT !.changePercent1h = parseFloat(res1h.priceChangePercent)]
                  ELSE item
        i4   == IF set4
                  THEN [i1 EXCEPT !.changePercent4h = parseFloat(res4h.priceChangePercent)]
                  ELSE i1
    IN  [map |-> MapSet(map, symbol, i4), updated |-> set1 \/ set4]

\* alreadyFetching with a slip: the guard never finds the symbol
alreadyFetching_Never(pending, symbol) == FALSE

\* the guard at the head of fetchDetailedStats
alreadyFetching(pending, symbol) == symbol \in pending

\* releasePending with a slip: the marker is not removed
releasePending_Keep(pending, symbol) == pending

\* the finally block: this.pendingFetches.delete(symbol)
releasePending(pending, symbol) == pending \ {symbol}

\* ------------------------------------------------------------------------
\* Initial state: a freshly constructed BinanceService
\* ------------------------------------------------------------------------
EmptyMap == [x \in {} |-> newRecord("")]

\* ---- the copy made by new Map(this.tickerMap) ----
\* The copy is shallow: it has its own set of keys, and its values are the
\* record objects of tickerMap.  shared: the symbols whose record in the copy
\* is still the object tickerMap holds.
noCopy == [has |-> FALSE, map |-> EmptyMap, shared |-> {}]

\* new Map(this.tickerMap) is handed to the callbacks of pass; only the first
\* copy handed to anyone is followed
handOut(d, map, pass) ==
  IF ~d.has /\ pass # <<>>
    THEN [has |-> TRUE, map |-> map, shared |-> DOMAIN map]
    ELSE d

\* the fields of records were assigned in place: the copy sees the records
\* of map through the objects it shares
assignedInPlace(d, map) ==
  [d EXCEPT !.map = [s \in DOMAIN d.map |-> IF s \in d.shared THEN map[s] ELSE d.map[s]]]

\* tickerMap.set(symbol, {...}) put new objects under syms
replacedObjects(d, syms) == [d EXCEPT !.shared = @ \ syms]

RECURSIVE setBefore(_, _, _)
\* the symbols a forEach over items sets before it ends or throws on a null
\* item, among those of taken
setBefore(items, i, taken) ==
  IF i > Len(items) THEN {}
  ELSE IF items[i].isNull THEN {}
  ELSE (IF items[i].symbol \in taken THEN {items[i].symbol} ELSE {})
         \cup setBefore(items, i + 1, taken)

\* ------------------------------------------------------------------------
\* src/api/snapshot.js: the batch aggregator
\* ------------------------------------------------------------------------
\* the symbol of the i-th entry of the 24h ticker list
TickerPool == <<"BTCUSDT", "ETHBTC", "BNBUSDT", "SOLUSDT", "XRPUSDT">>

\* what the upstream may send as i-th entry
TickerEntries(i) ==
  { [symbol |-> TickerPool[i], count |-> n, quoteVolume |-> v, lastPrice |-> <<"7">>,
     priceChangePercent |-> <<"9", ".", "5">>] : n \in {0, 5}, v \in {<<"1">>, <<"2">>} }

RECURSIVE TickerLists(_)
\* the 24h ticker lists of at most n entries
TickerLists(n) ==
  IF n = 0 THEN {<<>>}
  ELSE LET shorter == TickerLists(n - 1)
       IN  shorter \cup { Append(q, e) : q \in {x \in shorter : Len(x) = n - 1},
                                         e \in TickerEntries(n) }

\* tickerRes while the fetch of the 24h list has not resolved
noTickerRes == [kind |-> "pending", data |-> <<>>]

\* outcomes of the request of /api/v3/ticker/24hr: the fetch rejects or is
\* aborted ("throws"), or it resolves with a status that is not a success,
\* with a body json() or filter cannot use, or with a list
TickerResults ==
  { [kind |-> "ok", data |-> l] : l \in TickerLists(MaxTickers) }
    \cup { [kind |-> k, data |-> <<>>] : k \in {"status", "throws", "badBody"} }

\* the outcomes whose list has, entry by entry, the quote volumes 1, 2, 2, 1, 2:
\* the sort has work to do, and there is one list per choice of trade counts
PoolVolume == <<"1", "2", "2", "1", "2">>
PlainTickerResults ==
  { r \in TickerResults :
      \A i \in 1..Len(r.data) : r.data[i].quoteVolume = <<PoolVolume[i]>> }

\* res.ok of a response that has arrived
isOk(res) == res.kind \in {"ok", "badBody"}

\* TOP_N and BATCH_SIZE by deployment: small tiers and the values of the source
TopNs == (1..MaxTopN) \cup {3000}
BatchSizes == (1..MaxBatchSize) \cup {80}

\* the windows processBatch asks for
Windows == {"1h", "4h"}

\* priceChangePercent the upstream reports for a window
WindowPercent(window) == IF window = "1h" THEN <<"0", ".", "5">> ELSE <<"-", "1", ".", "2", "5">>

\* an entry of the list of a windowed response that is null
NullEntry == [isNull |-> TRUE, symbol |-> "", priceChangePercent |-> <<>>]

\* the entry the upstream reports for a symbol and a window
windowEntry(sym, window) ==
  [isNull |-> FALSE, symbol |-> sym, priceChangePercent |-> WindowPercent(window)]

\* the lists a windowed response for a batch can hold: the entries of the
\* first symbols of the batch, of all of them or of none, followed or not by
\* a null entry
WindowBodies(batchSymbols, window) ==
  LET full == [i \in 1..Len(batchSymbols) |-> windowEntry(batchSymbols[i], window)]
  IN  { SubSeq(full, 1, n) : n \in 0..Len(full) }
        \cup { Append(SubSeq(full, 1, n), NullEntry) : n \in 0..(Len(full) - 1) }

\* res1h and res4h of a call while the fetch has not settled
noResult == [kind |-> "pending", data |-> <<>>]

\* outcomes of one windowed request of a batch: the fetch rejects or is
\* aborted ("throws"), or it resolves with a status that is not a success,
\* with a success status and a body json() rejects or forEach is no method
\* of ("badBody"), or with a success status and a list
BatchResults(batchSymbols, window) ==
  { [kind |-> k, data |-> <<>>] : k \in {"status", "throws", "badBody"} }
    \cup { [kind |-> "ok", data |-> b] : b \in WindowBodies(batchSymbols, window) }

NoEntries == [x \in {} |-> <<>>]
\* the response object before anything is set on it; headers: the names of the
\* headers set with setHeader
noResponse ==
  [status |-> 0, body |-> <<>>, headers |-> {}, debugStatus |-> "", cacheControl |-> "",
   logs |-> <<>>]

\* fetchWithTimeout, n calls: each arms its timer before the fetch
armTimeouts(t, n) == t + n

\* settleTimeout with a slip: the catch rethrows without clearTimeout
settleTimeout_LeakOnThrow(t, outcome) == IF outcome = "throws" THEN t ELSE t - 1

\* fetchWithTimeout when its fetch settles: clearTimeout(id) after the await
\* and in the catch
settleTimeout(t, outcome) == t - 1

\* tickerData.filter(t => t.count > 0)
validOf(data) == SelectSeq(data, LAMBDA t : t.count > 0)

\* byVolumeDesc with a slip: the operands have changed places
byVolumeDesc_Ascending(a, b) == parseFloat(a.quoteVolume)[2] - parseFloat(b.quoteVolume)[2]

\* the comparator of the sort: negative when a goes first
byVolumeDesc(a, b) == parseFloat(b.quoteVolume)[2] - parseFloat(a.quoteVolume)[2]

RECURSIVE insertSorted(_, _)
\* e put into a sorted list behind every entry that does not go after it
insertSorted(sorted, e) ==
  IF sorted = <<>> THEN <<e>>
  ELSE IF byVolumeDesc(sorted[1], e) <= 0
    THEN <<sorted[1]>> \o insertSorted(Tail(sorted), e)
    ELSE <<e>> \o sorted

RECURSIVE sort(_)
\* Array.prototype.sort with byVolumeDesc: stable; the sorted front part is
\* computed once and the last entry put into it
sort(arr) ==
  IF arr = <<>> THEN <<>>
  ELSE CHOOSE r \in { insertSorted(front, arr[Len(arr)]) :
                        front \in {sort(SubSeq(arr, 1, Len(arr) - 1))} } : TRUE

\* arr.slice(from, to), zero-based, to exclusive
slice(arr, from, to) == SubSeq(arr, from + 1, Min(to, Len(arr)))

RECURSIVE chunkFrom(_, _, _)
\* the loop of chunkArray from index i on
chunkFrom(arr, size, i) ==
  IF i < Len(arr) THEN <<slice(arr, i, i + size)>> \o chunkFrom(arr, size, i + size)
  ELSE <<>>

\* chunkArray with a slip: a last chunk shorter than size is dropped
chunkArray_DropsRemainder(arr, size) ==
  SelectSeq(chunkFrom(arr, size, 0), LAMBDA c : Len(c) = size)

\* chunkArray(arr, size)
chunkArray(arr, size) == chunkFrom(arr, size, 0)

\* symbolBatches of step 2
symbolBatchesOf(valid, topN, batchSize) ==
  LET topTickersSubset == slice(valid, 0, topN)
  IN  chunkArray([i \in 1..Len(topTickersSubset) |-> topTickersSubset[i].symbol], batchSize)

\* processBatch up to its first await: one 1h and one 4h request are issued;
\* awaits: "all" at Promise.all, "json1h" and "json4h" at the body of a
\* response, "none" once processBatch has returned
processBatch(batchSymbols) ==
  [symbols |-> batchSymbols, requests1h |-> 1, requests4h |-> 1, settled |-> FALSE,
   awaits |-> "all", res1h |-> noResult, res4h |-> noResult]

RECURSIVE forEachSet(_, _)
\* data.forEach(i => map.set(i.symbol, i.priceChangePercent)): the entries
\* are set one after the other, and reading i.symbol of a null entry throws
\* with the entries before it set
forEachSet(map, data) ==
  IF data = <<>> THEN [map |-> map, threw |-> FALSE]
  ELSE IF Head(data).isNull THEN [map |-> map, threw |-> TRUE]
  ELSE forEachSet(MapSet(map, Head(data).symbol, Head(data).priceChangePercent), Tail(data))

\* check4h with a slip: a status that is not a success is not recorded
check4h_SilentStatus(m1, m4, errors, idx, res4h) ==
  IF isOk(res4h)
    THEN [map1h |-> m1, map4h |-> m4, partialErrors |-> errors, awaits |-> "json4h"]
    ELSE [map1h |-> m1, map4h |-> m4, partialErrors |-> errors, awaits |-> "none"]

\* processBatch from the test of res4h.ok to its next await or its end
check4h(m1, m4, errors, idx, res4h) ==
  IF isOk(res4h)
    THEN [map1h |-> m1, map4h |-> m4, partialErrors |-> errors, awaits |-> "json4h"]
    ELSE [map1h |-> m1, map4h |-> m4, partialErrors |-> Append(errors, <<idx, "4h">>),
          awaits |-> "none"]

\* processBatch once Promise.all of its two requests has resolved, for batch
\* number idx (from 0): from the test of res1h.ok to its next await or its end
settleBatch(m1, m4, errors, idx, res1h, res4h) ==
  IF isOk(res1h)
    THEN [map1h |-> m1, map4h |-> m4, partialErrors |-> errors, awaits |-> "json1h"]
    ELSE check4h(m1, m4, Append(errors, <<idx, "1h">>), idx, res4h)

\* the catch of processBatch
catchBatch(m1, m4, errors, idx) ==
  [map1h |-> m1, map4h |-> m4, partialErrors |-> Append(errors, <<idx, "Err">>),
   awaits |-> "none"]

\* processBatch once json() of the body it awaits has settled, to its next
\* await or its end: json() rejects, or forEach runs over the list
readBody(m1, m4, errors, call, idx) ==
  IF call.awaits = "json1h"
    THEN IF call.res1h.kind = "ok"
           THEN LET r == forEachSet(m1, call.res1h.data)
                IN  IF r.threw THEN catchBatch(r.map, m4, errors, idx)
                    ELSE check4h(r.map, m4, errors, idx, call.res4h)
           ELSE catchBatch(m1, m4, errors, idx)
    ELSE IF call.res4h.kind = "ok"
           THEN LET r == forEachSet(m4, call.res4h.data)
                IN  IF r.threw THEN catchBatch(m1, r.map, errors, idx)
                    ELSE [map1h |-> m1, map4h |-> r.map, partialErrors |-> errors,
                          awaits |-> "none"]
           ELSE catchBatch(m1, m4, errors, idx)

\* one record of the merged result
resultRecord(item, m1, m4) ==
  [symbol |-> item.symbol,
   price |-> parseFloat(item.lastPrice),
   volume |-> parseFloat(item.quoteVolume),
   changePercent24h |-> parseFloat(item.priceChangePercent),
   changePercent1h |-> IF item.symbol \in DOMAIN m1 THEN parseFloat(m1[item.symbol]) ELSE NullNum,
   changePercent4h |-> IF item.symbol \in DOMAIN m4 THEN parseFloat(m4[item.symbol]) ELSE NullNum]

\* respond200 with a slip: only the selected tickers are emitted
respond200_TopOnly(valid, m1, m4, errors) ==
  [status |-> 200,
   body |-> [i \in 1..Min(Len(valid), TOP_N) |-> resultRecord(valid[i], m1, m4)],
   headers |-> {"Cache-Control", "X-Debug-Status"}
                 \cup (IF Len(errors) > 0 THEN {"X-Debug-Errors"} ELSE {}),
   debugStatus |-> IF Len(errors) > 0 THEN "Partial" ELSE "Success",
   cacheControl |-> "s-maxage=300, stale-while-revalidate=60",
   logs |-> <<>>]

\* the answer of step 4
respond200(valid, m1, m4, errors) ==
  [status |-> 200,
   body |-> [i \in 1..Len(valid) |-> resultRecord(valid[i], m1, m4)],
   headers |-> {"Cache-Control", "X-Debug-Status"}
                 \cup (IF Len(errors) > 0 THEN {"X-Debug-Errors"} ELSE {}),
   debugStatus |-> IF Len(errors) > 0 THEN "Partial" ELSE "Success",
   cacheControl |-> "s-maxage=300, stale-while-revalidate=60",
   logs |-> <<>>]

\* respond500 with a slip: the cache directive is set on the error answer too
respond500_Cached(res) ==
  [res EXCEPT !.status = 500,
              !.headers = @ \cup {"Cache-Control"},
              !.cacheControl = "s-maxage=300, stale-while-revalidate=60",
              !.logs = <<"Snapshot request received", "Step 1: Fetching 24hr ticker...",
                         "FATAL ERROR">>]

\* the answer of the catch on the response object as it is: the status and the
\* error payload with the log entries made so far; no header is set or removed
respond500(res) ==
  [res EXCEPT !.status = 500,
              !.logs = <<"Snapshot request received", "Step 1: Fetching 24hr ticker...",
                         "FATAL ERROR">>]

\* ------------------------------------------------------------------------
\* getQuoteAsset
\* ------------------------------------------------------------------------
\* KNOWN_QUOTE_ASSETS with a slip: EUR and AEUR have changed places
KNOWN_QUOTE_ASSETS_EurBeforeAeur ==
  << <<"U", "S", "D", "T">>, <<"F", "D", "U", "S", "D">>, <<"U", "S", "D", "C">>,
     <<"T", "U", "S", "D">>, <<"B", "U", "S", "D">>, <<"U", "S", "D", "P">>,
     <<"D", "A", "I">>, <<"E", "U", "R", "I">>, <<"E", "U", "R">>, <<"V", "A", "I">>,
     <<"I", "D", "R", "T">>, <<"B", "T", "C">>, <<"E", "T", "H">>, <<"B", "N", "B">>,
     <<"S", "O", "L">>, <<"X", "R", "P">>, <<"T", "R", "X">>, <<"D", "O", "G", "E">>,
     <<"D", "O", "T">>, <<"A", "E", "U", "R">>, <<"T", "R", "Y">>, <<"B", "R", "L">>,
     <<"J", "P", "Y">>, <<"Z", "A", "R">>, <<"I", "D", "R">>, <<"R", "U", "B">>,
     <<"G", "B", "P">>, <<"A", "U", "D">>, <<"C", "O", "P">>, <<"M", "X", "N">>,
     <<"A", "R", "S">>, <<"N", "G", "N">>, <<"U", "A", "H">>, <<"P", "L", "N">>,
     <<"R", "O", "N">>, <<"K", "Z", "T">>, <<"V", "N", "D">> >>

\* KNOWN_QUOTE_ASSETS, each entry as text
KNOWN_QUOTE_ASSETS ==
  << <<"U", "S", "D", "T">>, <<"F", "D", "U", "S", "D">>, <<"U", "S", "D", "C">>,
     <<"T", "U", "S", "D">>, <<"B", "U", "S", "D">>, <<"U", "S", "D", "P">>,
     <<"D", "A", "I">>, <<"E", "U", "R", "I">>, <<"A", "E", "U", "R">>,
     <<"V", "A", "I">>, <<"I", "D", "R", "T">>, <<"B", "T", "C">>, <<"E", "T", "H">>,
     <<"B", "N", "B">>, <<"S", "O", "L">>, <<"X", "R", "P">>, <<"T", "R", "X">>,
     <<"D", "O", "G", "E">>, <<"D", "O", "T">>, <<"E", "U", "R">>, <<"T", "R", "Y">>,
     <<"B", "R", "L">>, <<"J", "P", "Y">>, <<"Z", "A", "R">>, <<"I", "D", "R">>,
     <<"R", "U", "B">>, <<"G", "B", "P">>, <<"A", "U", "D">>, <<"C", "O", "P">>,
     <<"M", "X", "N">>, <<"A", "R", "S">>, <<"N", "G", "N">>, <<"U", "A", "H">>,
     <<"P", "L", "N">>, <<"R", "O", "N">>, <<"K", "Z", "T">>, <<"V", "N", "D">> >>

\* null, and the result before any call
JSNull == <<"null">>
NotCalled == <<"not called">>

\* endsWith with a slip: the asset may stand anywhere in the symbol
endsWith_Anywhere(s, suffix) == includes(s, suffix)

\* String.prototype.endsWith
endsWith(s, suffix) ==
  /\ Len(suffix) <= Len(s)
  /\ \A k \in 1..Len(suffix) : s[Len(s) - Len(suffix) + k] = suffix[k]

RECURSIVE quoteFrom(_, _)
\* the for loop of getQuoteAsset from entry i on
quoteFrom(symbol, i) ==
  IF i > Len(KNOWN_QUOTE_ASSETS) THEN JSNull
  ELSE IF endsWith(symbol, KNOWN_QUOTE_ASSETS[i]) THEN KNOWN_QUOTE_ASSETS[i]
  ELSE quoteFrom(symbol, i + 1)

getQuoteAsset(symbol) == quoteFrom(symbol, 1)

\* the base assets and the endings of the symbols asked about
BaseAssets == { <<"E", "T", "H">>, <<"U", "S", "D", "C">>, <<"B", "T", "C">>, <<"X">>, <<>> }
Endings ==
  { KNOWN_QUOTE_ASSETS[i] : i \in 1..Len(KNOWN_QUOTE_ASSETS) }
    \cup { <<>>, <<"X", "Y", "Z">>, <<"U", "S", "D">> }
QuerySymbols == { b \o e : b \in BaseAssets, e \in Endings }

Init ==
  /\ revision \in Revisions
  /\ ws = 0
  /\ sockets = <<>>
  /\ reconnectAttempt = 0
  /\ reconnectTimeoutId = "null"
  /\ timers = 0
  /\ timerDelay = 0
  /\ endpointIndex = 0
  /\ tickerMap = EmptyMap
  /\ subscribers = <<>>
  /\ pendingFetches = {}
  /\ lazyCalls = [sym \in Symbols |-> 0]
  /\ snapRuns = <<>>
  /\ invoked = <<>>
  /\ frames = 0
  /\ disconnected = FALSE
  /\ quiet = FALSE
  /\ consecFailures = 0
  /\ lastItem = [sym \in Symbols |-> noItem]
  /\ delivered = noCopy
  /\ handlerPc = "idle"
  /\ TOP_N = 0
  /\ BATCH_SIZE = 0
  /\ tickerRes = noTickerRes
  /\ tickerData = <<>>
  /\ validTickers = <<>>
  /\ batchCalls = <<>>
  /\ map1h = NoEntries
  /\ map4h = NoEntries
  /\ partialErrors = <<>>
  /\ response = noResponse
  /\ timeoutTimers = 0
  /\ inFlight = 0
  /\ symbolArg = <<>>
  /\ quoteResult = NotCalled

\* the bounds of the model on a connection state
WithinBounds(c) ==
  /\ Len(c.sockets) <= MaxSockets
  /\ c.reconnectAttempt <= MaxAttempt

\* symbols whose record differs between two maps
Changed(m1, m2) ==
  {sym \in DOMAIN m2 : ~Has(m1, sym) \/ m1[sym] # m2[sym]}

\* ------------------------------------------------------------------------
\* Public operations
\* ------------------------------------------------------------------------
\* connect(): start fetchInitialSnapshot, then connectWebSocket
Connect(throws) ==
  /\ Len(snapRuns) < MaxConnects
  /\ LET c2 == connectWebSocket(Conn, throws)
     IN  /\ WithinBounds(c2)
         /\ SetConn(c2)
         /\ consecFailures' = IF ~alreadyConnected(Conn) /\ throws
                                THEN consecFailures + 1 ELSE consecFailures
  /\ snapRuns' = Append(snapRuns, firstRun)
  /\ disconnected' = FALSE
  /\ quiet' = FALSE
  /\ invoked' = <<>>
  /\ UNCHANGED <<revision, delivered, tickerMap, subscribers, pendingFetches, lazyCalls, frames, lastItem>>
  /\ UNCHANGED <<handlerVars, lookupVars>>

Disconnect ==
  /\ SetConn(disconnect(Conn))
  /\ disconnected' = TRUE
  /\ quiet' = TRUE
  /\ invoked' = <<>>
  /\ UNCHANGED <<revision, delivered, tickerMap, subscribers, pendingFetches, lazyCalls, snapRuns,
                 frames, consecFailures, lastItem>>
  /\ UNCHANGED <<handlerVars, lookupVars>>

\* subscribe with a slip: the callback is called whatever the size of the map
subscribe_ReplayAlways(subs, map, callback) ==
  [subscribers |-> Append(subs, callback), invoked |-> <<callback>>]

\* subscribe(callback): the array afterwards and the callbacks it invokes
subscribe(subs, map, callback) ==
  [subscribers |-> Append(subs, callback),
   invoked |-> IF Cardinality(DOMAIN map) > 0 THEN <<callback>> ELSE <<>>]

\* subscribe(callback); throws: the callback throws when it is handed the map
Subscribe(cb, throws) ==
  /\ Len(subscribers) < MaxSubscribers
  /\ subscribers' = subscribe(subscribers, tickerMap, cb).subscribers
  /\ invoked' = subscribe(subscribers, tickerMap, cb).invoked
  /\ (DOMAIN tickerMap = {} => ~throws)
  /\ delivered' = handOut(delivered, tickerMap, invoked')
  /\ quiet' = FALSE
  /\ UNCHANGED <<revision, connVars, tickerMap, pendingFetches, lazyCalls, snapRuns,
                 frames, disconnected, lastItem>>
  /\ UNCHANGED <<handlerVars, lookupVars>>

\* the handle subscribe(cb) returned is called
Unsubscribe(cb) ==
  /\ \E k \in 1..Len(subscribers) : subscribers[k] = cb
  /\ subscribers' = SelectSeq(subscribers, LAMBDA x : x # cb)
  /\ invoked' = <<>>
  /\ quiet' = FALSE
  /\ UNCHANGED <<revision, delivered, connVars, tickerMap, pendingFetches, lazyCalls, snapRuns,
                 frames, disconnected, lastItem>>
  /\ UNCHANGED <<handlerVars, lookupVars>>

\* ------------------------------------------------------------------------
\* Socket events and the reconnect timer
\* ------------------------------------------------------------------------
IsSocket(i) == i \in 1..Len(sockets)

\* the connection is established: ws.onopen
SocketOpen(i) ==
  /\ IsSocket(i)
  /\ sockets[i].readyState = CONNECTING
  /\ SetConn(onopen([Conn EXCEPT !.sockets[i].readyState = OPEN]))
  /\ consecFailures' = 0
  /\ invoked' = <<>>
  /\ UNCHANGED <<revision, delivered, tickerMap, subscribers, pendingFetches, lazyCalls, snapRuns,
                 frames, disconnected, quiet, lastItem>>
  /\ UNCHANGED <<handlerVars, lookupVars>>

\* the peer starts the closing handshake: no event is delivered yet
SocketClosing(i) ==
  /\ IsSocket(i)
  /\ sockets[i].readyState = OPEN
  /\ sockets' = [sockets EXCEPT ![i].readyState = CLOSING]
  /\ invoked' = <<>>
  /\ UNCHANGED <<revision, delivered, ws, reconnectAttempt, reconnectTimeoutId, timers, timerDelay,
                 endpointIndex, consecFailures, tickerMap, subscribers, pendingFetches,
                 lazyCalls, snapRuns, frames, disconnected, quiet, lastItem>>
  /\ UNCHANGED <<handlerVars, lookupVars>>

\* the connection fails: the socket becomes CLOSED, then its error event and its
\* close event are delivered in the same task: ws.onerror, then ws.onclose
SocketError(i) ==
  /\ IsSocket(i)
  /\ sockets[i].readyState \in {CONNECTING, OPEN, CLOSING}
  /\ LET c1 == [Conn EXCEPT !.sockets[i].readyState = CLOSED]
         c2 == IF sockets[i].onerror THEN onerror(c1) ELSE c1
         c3 == IF sockets[i].onclose THEN onclose(c2) ELSE c2
     IN  /\ WithinBounds(c3)
         /\ SetConn(c3)
  /\ consecFailures' = IF sockets[i].onclose THEN consecFailures + 1 ELSE consecFailures
  /\ invoked' = <<>>
  /\ UNCHANGED <<revision, delivered, tickerMap, subscribers, pendingFetches, lazyCalls, snapRuns,
                 frames, disconnected, quiet, lastItem>>
  /\ UNCHANGED <<handlerVars, lookupVars>>

\* the connection is closed without an error: ws.onclose
SocketClose(i) ==
  /\ IsSocket(i)
  /\ sockets[i].readyState \in {CONNECTING, OPEN, CLOSING}
  /\ LET c1 == [Conn EXCEPT !.sockets[i].readyState = CLOSED]
         c2 == IF sockets[i].onclose THEN onclose(c1) ELSE c1
     IN  /\ WithinBounds(c2)
         /\ SetConn(c2)
  /\ consecFailures' = IF sockets[i].onclose THEN consecFailures + 1 ELSE consecFailures
  /\ invoked' = <<>>
  /\ UNCHANGED <<revision, delivered, tickerMap, subscribers, pendingFetches, lazyCalls, snapRuns,
                 frames, disconnected, quiet, lastItem>>
  /\ UNCHANGED <<handlerVars, lookupVars>>

\* a pending reconnect timer fires and calls connectWebSocket; latest: it is
\* the timer this.reconnectTimeoutId names
TimerFire(latest, throws) ==
  /\ timers > 0
  /\ IF latest THEN reconnectTimeoutId = "armed"
               ELSE timers > (IF reconnectTimeoutId = "armed" THEN 1 ELSE 0)
  /\ LET c1 == [Conn EXCEPT !.timers = timers - 1,
                            !.reconnectTimeoutId = IF latest THEN "fired" ELSE @]
         c2 == connectWebSocket(c1, throws)
     IN  /\ WithinBounds(c2)
         /\ SetConn(c2)
         /\ consecFailures' = IF ~alreadyConnected(c1) /\ throws
                                THEN consecFailures + 1 ELSE consecFailures
  /\ invoked' = <<>>
  /\ UNCHANGED <<revision, delivered, tickerMap, subscribers, pendingFetches, lazyCalls, snapRuns,
                 frames, disconnected, quiet, lastItem>>
  /\ UNCHANGED <<handlerVars, lookupVars>>

\* a frame arrives on an open socket: ws.onmessage
OnMessage(i, frame, throwAt) ==
  /\ IsSocket(i)
  /\ sockets[i].readyState = OPEN
  /\ frames < MaxFrames
  /\ LET r == onmessage(tickerMap, frame)
     IN  /\ tickerMap' = r.map
         /\ invoked' = IF r.notifies THEN notify(subscribers, throwAt) ELSE <<>>
         /\ (~r.notifies => throwAt = 0)
         /\ delivered' = handOut(assignedInPlace(delivered, r.map), r.map, invoked')
  /\ lastItem' = noteFrame(lastItem, frame)
  /\ frames' = frames + 1
  /\ UNCHANGED <<revision, connVars, subscribers, pendingFetches, lazyCalls, snapRuns,
                 disconnected, quiet>>
  /\ UNCHANGED <<handlerVars, lookupVars>>

\* a frame whose notify pass runs to its end while one of the callbacks, the
\* k-th of the pass, calls the unsubscribe handle of cb: the handle assigns a
\* filtered array to this.subscribers, the forEach goes on over the array it
\* started with
OnMessageUnsub(i, frame, k, cb) ==
  /\ IsSocket(i)
  /\ sockets[i].readyState = OPEN
  /\ frames < MaxFrames
  /\ k \in 1..Len(subscribers)
  /\ \E j \in 1..Len(subscribers) : subscribers[j] = cb
  /\ LET r == onmessage(tickerMap, frame)
     IN  /\ r.notifies
         /\ tickerMap' = r.map
         /\ invoked' = notify(subscribers, 0)
         /\ delivered' = handOut(assignedInPlace(delivered, r.map), r.map, invoked')
  /\ subscribers' = SelectSeq(subscribers, LAMBDA x : x # cb)
  /\ lastItem' = noteFrame(lastItem, frame)
  /\ frames' = frames + 1
  /\ quiet' = FALSE
  /\ UNCHANGED <<revision, connVars, pendingFetches, lazyCalls, snapRuns, disconnected>>
  /\ UNCHANGED <<handlerVars, lookupVars>>

\* ------------------------------------------------------------------------
\* Responses of the snapshot requests
\* ------------------------------------------------------------------------
IsRun(r, pc) == r \in 1..Len(snapRuns) /\ snapRuns[r].pc = pc

\* commit the result of one step of run r; replaced: the symbols under which
\* the step put new record objects
SnapshotCommit(r, res, replaced) ==
  /\ tickerMap' = res.map
  /\ snapRuns' = [snapRuns EXCEPT ![r] = res.run]
  /\ invoked' = res.invoked
  /\ lastItem' = noteOther(lastItem, Changed(tickerMap, res.map))
  /\ delivered' = handOut(assignedInPlace(replacedObjects(delivered, replaced), res.map),
                          res.map, res.invoked)
  /\ UNCHANGED <<revision, connVars, subscribers, pendingFetches, lazyCalls, frames,
                 disconnected, quiet>>

TickerResponse(r, resp, t1, t2) ==
  /\ revision = "current"
  /\ IsRun(r, "ticker24")
  /\ LET res == snapshotCurrent(tickerMap, snapRuns[r], resp, subscribers, t1, t2)
         set == IF resp.kind = "ok"
                  THEN setBefore(SelectSeq(resp.items, LAMBDA it : it.isNull \/ it.count # 0),
                                 1, Symbols)
                  ELSE {}
     IN  SnapshotCommit(r, res, set)
  /\ UNCHANGED <<handlerVars, lookupVars>>

AggregatorResponse(r, resp, t1) ==
  /\ revision = "cascade"
  /\ IsRun(r, "aggregator")
  /\ SnapshotCommit(r, snapshotAggregator(tickerMap, snapRuns[r], resp, subscribers, t1),
                    IF resp.kind = "ok" THEN setBefore(resp.items, 1, Symbols) ELSE {})
  /\ UNCHANGED <<handlerVars, lookupVars>>

FallbackInfoResponse(r, resp, t1) ==
  /\ revision = "cascade"
  /\ IsRun(r, "exchangeInfo")
  /\ SnapshotCommit(r, fallbackInfo(tickerMap, snapRuns[r], resp, subscribers, t1), {})
  /\ UNCHANGED <<handlerVars, lookupVars>>

FallbackTickerResponse(r, resp, t1, t2) ==
  /\ revision = "cascade"
  /\ IsRun(r, "ticker24")
  /\ SnapshotCommit(r, fallbackTicker(tickerMap, snapRuns[r], resp, subscribers, t1, t2),
                    IF resp.kind = "ok"
                      THEN setBefore(resp.items, 1, snapRuns[r].trading) ELSE {})
  /\ UNCHANGED <<handlerVars, lookupVars>>

\* the two-request revision assigns the fields of an existing record in place
ParallelResponse(r, info, resp, t1) ==
  /\ revision = "parallel"
  /\ IsRun(r, "both")
  /\ SnapshotCommit(r, snapshotParallel(tickerMap, snapRuns[r], info, resp, subscribers, t1),
                    {})
  /\ UNCHANGED <<handlerVars, lookupVars>>

\* ------------------------------------------------------------------------
\* fetchDetailedStats
\* ------------------------------------------------------------------------
\* the call, up to the await of the two requests
FetchDetailedStats(symbol) ==
  /\ revision = "current"
  /\ IF alreadyFetching(pendingFetches, symbol)
       THEN UNCHANGED <<pendingFetches, lazyCalls>>
       ELSE /\ pendingFetches' = pendingFetches \cup {symbol}
            /\ lazyCalls' = [lazyCalls EXCEPT ![symbol] = @ + 1]
  /\ invoked' = <<>>
  /\ quiet' = FALSE
  /\ UNCHANGED <<revision, delivered, connVars, tickerMap, subscribers, snapRuns, frames,
                 disconnected, lastItem>>
  /\ UNCHANGED <<handlerVars, lookupVars>>

\* both requests of a call have settled: the rest of the try, catch, finally
DetailsSettle(symbol, res1h, res4h, throwAt) ==
  /\ revision = "current"
  /\ lazyCalls[symbol] > 0
  /\ LET r == applyDetails(tickerMap, symbol, res1h, res4h)
     IN  /\ tickerMap' = r.map
         /\ invoked' = IF r.updated THEN notify(subscribers, throwAt) ELSE <<>>
         /\ (~r.updated => throwAt = 0)
         /\ delivered' = handOut(assignedInPlace(delivered, r.map), r.map, invoked')
         /\ lastItem' = noteOther(lastItem, Changed(tickerMap, r.map))
  /\ pendingFetches' = releasePending(pendingFetches, symbol)
  /\ lazyCalls' = [lazyCalls EXCEPT ![symbol] = @ - 1]
  /\ UNCHANGED <<revision, connVars, subscribers, snapRuns, frames, disconnected, quiet>>
  /\ UNCHANGED <<handlerVars, lookupVars>>

\* ------------------------------------------------------------------------
\* Specifications
\* ------------------------------------------------------------------------
\* ---- the handler of src/api/snapshot.js ----
\* a request arrives at a deployment with the given TOP_N and BATCH_SIZE and
\* the 24h ticker request is issued
HandlerRequest(topN, batchSize) ==
  /\ handlerPc = "idle"
  /\ handlerPc' = "ticker"
  /\ TOP_N' = topN
  /\ BATCH_SIZE' = batchSize
  /\ timeoutTimers' = armTimeouts(timeoutTimers, 1)
  /\ inFlight' = inFlight + 1
  /\ UNCHANGED <<tickerRes, tickerData, validTickers, batchCalls, map1h, map4h, partialErrors,
                 response>>
  /\ UNCHANGED <<serviceVars, lookupVars>>

\* the fetch of the 24h ticker request settles: fetchWithTimeout clears its
\* timer; a rejection reaches the catch of the handler, a response is kept
\* and the handler awaits its body (json() or, for a failure status, text())
HandlerTickerSettle(res) ==
  /\ handlerPc = "ticker"
  /\ tickerRes = noTickerRes
  /\ timeoutTimers' = settleTimeout(timeoutTimers, res.kind)
  /\ inFlight' = inFlight - 1
  /\ IF res.kind = "throws"
       THEN /\ response' = respond500(response)
            /\ handlerPc' = "done"
            /\ UNCHANGED tickerRes
       ELSE /\ tickerRes' = res
            /\ UNCHANGED <<handlerPc, response>>
  /\ UNCHANGED <<TOP_N, BATCH_SIZE, tickerData, validTickers, batchCalls, map1h, map4h,
                 partialErrors>>
  /\ UNCHANGED <<serviceVars, lookupVars>>

\* the body of the 24h response has been read: the rest of step 1, step 2 and
\* the calls of processBatch, or the catch of the handler
HandlerTicker ==
  /\ handlerPc = "ticker"
  /\ tickerRes # noTickerRes
  /\ IF tickerRes.kind = "ok"
       THEN LET valid == sort(validOf(tickerRes.data))
                symbolBatches == symbolBatchesOf(valid, TOP_N, BATCH_SIZE)
            IN  /\ tickerData' = tickerRes.data
                /\ validTickers' = valid
                /\ batchCalls' = [i \in 1..Len(symbolBatches) |-> processBatch(symbolBatches[i])]
                /\ handlerPc' = "batches"
                /\ timeoutTimers' = armTimeouts(timeoutTimers, 2 * Len(symbolBatches))
                /\ inFlight' = inFlight + 2 * Len(symbolBatches)
                /\ UNCHANGED response
       ELSE /\ response' = respond500(response)
            /\ handlerPc' = "done"
            /\ UNCHANGED <<tickerData, validTickers, batchCalls, timeoutTimers, inFlight>>
  /\ UNCHANGED <<TOP_N, BATCH_SIZE, tickerRes, map1h, map4h, partialErrors>>
  /\ UNCHANGED <<serviceVars, lookupVars>>

\* the outcome of the request of a window, written into the call
withResult(call, window, outcome) ==
  IF window = "1h" THEN [call EXCEPT !.res1h = outcome] ELSE [call EXCEPT !.res4h = outcome]

resultOf(call, window) == IF window = "1h" THEN call.res1h ELSE call.res4h

\* HandlerFetchSettle with a slip: a thrown failure of a batch request is not
\* caught in processBatch and reaches the catch of the handler
HandlerFetchSettle_Rethrows(i, window, outcome) ==
  /\ handlerPc = "batches"
  /\ i \in 1..Len(batchCalls)
  /\ batchCalls[i].awaits = "all"
  /\ resultOf(batchCalls[i], window) = noResult
  /\ timeoutTimers' = settleTimeout(timeoutTimers, outcome.kind)
  /\ inFlight' = inFlight - 1
  /\ LET call == withResult(batchCalls[i], window, outcome)
         r    == IF outcome.kind = "throws"
                   THEN catchBatch(map1h, map4h, partialErrors, i - 1)
                 ELSE IF call.res1h = noResult \/ call.res4h = noResult
                   THEN [map1h |-> map1h, map4h |-> map4h, partialErrors |-> partialErrors,
                         awaits |-> "all"]
                 ELSE settleBatch(map1h, map4h, partialErrors, i - 1, call.res1h, call.res4h)
     IN  /\ map1h' = r.map1h
         /\ map4h' = r.map4h
         /\ partialErrors' = r.partialErrors
         /\ batchCalls' = [batchCalls EXCEPT ![i] = [call EXCEPT !.awaits = r.awaits,
                                                                 !.settled = r.awaits = "none"]]
  /\ IF outcome.kind = "throws"
       THEN handlerPc' = "done" /\ response' = respond500(response)
       ELSE UNCHANGED <<handlerPc, response>>
  /\ UNCHANGED <<TOP_N, BATCH_SIZE, tickerRes, tickerData, validTickers>>
  /\ UNCHANGED <<serviceVars, lookupVars>>

\* the fetch of one request of batch i settles while processBatch awaits
\* Promise.all: fetchWithTimeout clears its timer; a rejection rejects
\* Promise.all and the catch of processBatch ends the call, a response is
\* kept, and with the second response processBatch runs on to the body it
\* awaits next or to its end
HandlerFetchSettle(i, window, outcome) ==
  /\ handlerPc = "batches"
  /\ i \in 1..Len(batchCalls)
  /\ batchCalls[i].awaits = "all"
  /\ resultOf(batchCalls[i], window) = noResult
  /\ timeoutTimers' = settleTimeout(timeoutTimers, outcome.kind)
  /\ inFlight' = inFlight - 1
  /\ LET call == withResult(batchCalls[i], window, outcome)
         r    == IF outcome.kind = "throws"
                   THEN catchBatch(map1h, map4h, partialErrors, i - 1)
                 ELSE IF call.res1h = noResult \/ call.res4h = noResult
                   THEN [map1h |-> map1h, map4h |-> map4h, partialErrors |-> partialErrors,
                         awaits |-> "all"]
                 ELSE settleBatch(map1h, map4h, partialErrors, i - 1, call.res1h, call.res4h)
     IN  /\ map1h' = r.map1h
         /\ map4h' = r.map4h
         /\ partialErrors' = r.partialErrors
         /\ batchCalls' = [batchCalls EXCEPT ![i] = [call EXCEPT !.awaits = r.awaits,
                                                                 !.settled = r.awaits = "none"]]
  /\ UNCHANGED <<handlerPc, TOP_N, BATCH_SIZE, tickerRes, tickerData, validTickers, response>>
  /\ UNCHANGED <<serviceVars, lookupVars>>

\* the body processBatch of batch i awaits has been read, or could not be
HandlerBody(i) ==
  /\ handlerPc = "batches"
  /\ i \in 1..Len(batchCalls)
  /\ batchCalls[i].awaits \in {"json1h", "json4h"}
  /\ LET r == readBody(map1h, map4h, partialErrors, batchCalls[i], i - 1)
     IN  /\ map1h' = r.map1h
         /\ map4h' = r.map4h
         /\ partialErrors' = r.partialErrors
         /\ batchCalls' = [batchCalls EXCEPT ![i].awaits = r.awaits,
                                             ![i].settled = r.awaits = "none"]
  /\ UNCHANGED <<handlerPc, TOP_N, BATCH_SIZE, tickerRes, tickerData, validTickers, response,
                 timeoutTimers, inFlight>>
  /\ UNCHANGED <<serviceVars, lookupVars>>

\* a request of batch i that was in flight when Promise.all of the batch
\* rejected settles, before or after the answer: nobody reads its outcome,
\* fetchWithTimeout clears its timer
HandlerLateSettle(i, window, outcome) ==
  /\ handlerPc \in {"batches", "done"}
  /\ i \in 1..Len(batchCalls)
  /\ batchCalls[i].awaits = "none"
  /\ resultOf(batchCalls[i], window) = noResult
  /\ inFlight' = inFlight - 1
  /\ timeoutTimers' = settleTimeout(timeoutTimers, outcome.kind)
  /\ batchCalls' = [batchCalls EXCEPT ![i] = withResult(batchCalls[i], window, outcome)]
  /\ UNCHANGED <<handlerPc, TOP_N, BATCH_SIZE, tickerRes, tickerData, validTickers, map1h,
                 map4h, partialErrors, response>>
  /\ UNCHANGED <<serviceVars, lookupVars>>

\* Promise.all of the batches has resolved: step 4 and the answer
HandlerRespond ==
  /\ handlerPc = "batches"
  /\ \A i \in 1..Len(batchCalls) : batchCalls[i].settled
  /\ response' = respond200(validTickers, map1h, map4h, partialErrors)
  /\ handlerPc' = "done"
  /\ UNCHANGED <<TOP_N, BATCH_SIZE, tickerRes, tickerData, validTickers, batchCalls, map1h,
                 map4h, partialErrors, timeoutTimers, inFlight>>
  /\ UNCHANGED <<serviceVars, lookupVars>>

\* getQuoteAsset(symbol) is called
GetQuoteAsset(symbol) ==
  /\ symbolArg' = symbol
  /\ quoteResult' = getQuoteAsset(symbol)
  /\ UNCHANGED <<serviceVars, handlerVars>>

\* the whole service
Next ==
  \/ \E throws \in BOOLEAN : Connect(throws)
  \/ Disconnect
  \/ \E cb \in Callbacks, throws \in BOOLEAN : Subscribe(cb, throws)
  \/ \E cb \in Callbacks : Unsubscribe(cb)
  \/ \E i \in 1..MaxSockets : SocketOpen(i)
  \/ \E i \in 1..MaxSockets : SocketClosing(i)
  \/ \E i \in 1..MaxSockets : SocketError(i)
  \/ \E i \in 1..MaxSockets : SocketClose(i)
  \/ \E latest \in BOOLEAN, throws \in BOOLEAN : TimerFire(latest, throws)
  \/ \E i \in 1..MaxSockets, frame \in Frames, t \in 0..MaxSubscribers :
       t <= Len(subscribers) /\ OnMessage(i, frame, t)
  \/ \E i \in 1..MaxSockets, frame \in Frames, k \in 1..MaxSubscribers, cb \in Callbacks :
       OnMessageUnsub(i, frame, k, cb)
  \/ \E r \in 1..MaxConnects, resp \in TickerResponses, t1, t2 \in 0..MaxSubscribers :
       t1 <= Len(subscribers) /\ t2 <= Len(subscribers) /\ TickerResponse(r, resp, t1, t2)
  \/ \E r \in 1..MaxConnects, resp \in AggResponses, t1 \in 0..MaxSubscribers :
       t1 <= Len(subscribers) /\ AggregatorResponse(r, resp, t1)
  \/ \E r \in 1..MaxConnects, resp \in InfoResponses, t1 \in 0..MaxSubscribers :
       t1 <= Len(subscribers) /\ FallbackInfoResponse(r, resp, t1)
  \/ \E r \in 1..MaxConnects, resp \in TickerResponses, t1, t2 \in 0..MaxSubscribers :
       t1 <= Len(subscribers) /\ t2 <= Len(subscribers)
         /\ FallbackTickerResponse(r, resp, t1, t2)
  \/ \E r \in 1..MaxConnects, info \in InfoResponses, resp \in TickerResponses,
        t1 \in 0..MaxSubscribers :
       t1 <= Len(subscribers) /\ ParallelResponse(r, info, resp, t1)
  \/ \E sym \in Symbols : FetchDetailedStats(sym)
  \/ \E sym \in Symbols, res1h, res4h \in WindowResponses, t \in 0..MaxSubscribers :
       t <= Len(subscribers) /\ DetailsSettle(sym, res1h, res4h, t)
  \/ \E topN \in TopNs, batchSize \in BatchSizes : HandlerRequest(topN, batchSize)
  \/ \E res \in TickerResults : HandlerTickerSettle(res)
  \/ HandlerTicker
  \/ \E i \in 1..Len(batchCalls), window \in Windows :
         \E outcome \in BatchResults(batchCalls[i].symbols, window) :
           HandlerFetchSettle(i, window, outcome)
  \/ \E i \in 1..MaxTickers : HandlerBody(i)
  \/ \E i \in 1..Len(batchCalls), window \in Windows :
         \E outcome \in BatchResults(batchCalls[i].symbols, window) :
           HandlerLateSettle(i, window, outcome)
  \/ HandlerRespond
  \/ \E symbol \in QuerySymbols : GetQuoteAsset(symbol)

Spec == Init /\ [][Next]_vars

\* The product of the connection, the store and the subscribers is too large
\* to enumerate, so each group of properties is checked on the part of the
\* service it is about.  Every specification below takes its steps from the
\* actions above; it only leaves out the events that cannot bear on its
\* properties and, where said, narrows what the environment sends.

\* ---- the connection: sockets, reconnect timer, endpoint rotation ----
NextConn ==
  \/ \E throws \in BOOLEAN : Connect(throws)
  \/ Disconnect
  \/ \E i \in 1..MaxSockets : SocketOpen(i)
  \/ \E i \in 1..MaxSockets : SocketClosing(i)
  \/ \E i \in 1..MaxSockets : SocketError(i)
  \/ \E i \in 1..MaxSockets : SocketClose(i)
  \/ \E latest \in BOOLEAN, throws \in BOOLEAN : TimerFire(latest, throws)

SpecConn == Init /\ [][NextConn]_vars

\* ---- the connection of the current revision, never disconnected ----
InitCurrent == Init /\ revision = "current"

NextBackoff ==
  \/ \E throws \in BOOLEAN : Connect(throws)
  \/ \E i \in 1..MaxSockets : SocketOpen(i)
  \/ \E i \in 1..MaxSockets : SocketClosing(i)
  \/ \E i \in 1..MaxSockets : SocketError(i)
  \/ \E i \in 1..MaxSockets : SocketClose(i)
  \/ \E latest \in BOOLEAN, throws \in BOOLEAN : TimerFire(latest, throws)

SpecBackoff == InitCurrent /\ [][NextBackoff]_vars

\* a reconnect timer that is pending fires: setTimeout runs its callback
FireReconnect == \E throws \in BOOLEAN : TimerFire(TRUE, throws)

\* ---- one connect() of the current revision, with its timer firing ----
NextReconnect ==
  \/ \E throws \in BOOLEAN : Len(snapRuns) = 0 /\ Connect(throws)
  \/ Disconnect
  \/ \E i \in 1..MaxSockets : SocketOpen(i)
  \/ \E i \in 1..MaxSockets : SocketClosing(i)
  \/ \E i \in 1..MaxSockets : SocketError(i)
  \/ \E i \in 1..MaxSockets : SocketClose(i)
  \/ \E latest \in BOOLEAN, throws \in BOOLEAN : TimerFire(latest, throws)

SpecReconnect == InitCurrent /\ [][NextReconnect]_vars

FairReconnect == SpecReconnect /\ WF_vars(FireReconnect)

\* ---- the stream: every kind of frame, with subscribers, one connect() ----
NextStream ==
  \/ Len(snapRuns) = 0 /\ Connect(FALSE)
  \/ \E cb \in Callbacks, throws \in BOOLEAN : Subscribe(cb, throws)
  \/ \E cb \in Callbacks : Unsubscribe(cb)
  \/ \E i \in 1..MaxSockets : SocketOpen(i)
  \/ \E i \in 1..MaxSockets, frame \in Frames, t \in 0..MaxSubscribers :
       t <= Len(subscribers) /\ OnMessage(i, frame, t)
  \/ \E i \in 1..MaxSockets, frame \in Frames, k \in 1..MaxSubscribers, cb \in Callbacks :
       OnMessageUnsub(i, frame, k, cb)

SpecStream == Init /\ [][NextStream]_vars

\* ---- the stream alone: every kind of frame, no subscribers ----
NextFrames ==
  \/ Len(snapRuns) = 0 /\ Connect(FALSE)
  \/ \E i \in 1..MaxSockets : SocketOpen(i)
  \/ \E i \in 1..MaxSockets, frame \in Frames : OnMessage(i, frame, 0)

SpecFrames == Init /\ [][NextFrames]_vars

\* ---- the stream with one subscriber: every kind of frame ----
NextNotify ==
  \/ Len(snapRuns) = 0 /\ Connect(FALSE)
  \/ \E throws \in BOOLEAN : Len(subscribers) = 0 /\ Subscribe("cb1", throws)
  \/ \E i \in 1..MaxSockets : SocketOpen(i)
  \/ \E i \in 1..MaxSockets, frame \in Frames, t \in 0..MaxSubscribers :
       t <= Len(subscribers) /\ OnMessage(i, frame, t)

SpecNotify == Init /\ [][NextNotify]_vars

\* frames that carry an array of one item
SimpleFrames ==
  { [parses |-> TRUE, hasStream |-> TRUE, stream |-> n,
     data |-> [kind |-> "array", items |-> <<it>>]] : n \in StreamNames, it \in StreamItems }

\* stream names other than the three feeds: one with "4h" and "1h", one with
\* neither
OtherStreamNames == { <<"x", "4", "h", "_", "1", "h">>, <<"!", "m", "i", "n", "i">> }

\* frames of any of these names with an array of one item or of two
NamedFrames ==
  { [parses |-> TRUE, hasStream |-> TRUE, stream |-> n,
     data |-> [kind |-> "array", items |-> its]] :
      n \in StreamNames \cup OtherStreamNames,
      its \in { <<a>> : a \in StreamItems } \cup
              { <<a, b>> : a \in StreamItems, b \in StreamItems } }

\* ---- the stream alone, frames of the feeds and of other names ----
NextClassify ==
  \/ Len(snapRuns) = 0 /\ Connect(FALSE)
  \/ \E i \in 1..MaxSockets : SocketOpen(i)
  \/ \E i \in 1..MaxSockets, frame \in NamedFrames : OnMessage(i, frame, 0)

SpecClassify == InitCurrent /\ [][NextClassify]_vars

\* ---- the stream alone, one item per frame ----
NextWindows ==
  \/ Len(snapRuns) = 0 /\ Connect(FALSE)
  \/ \E i \in 1..MaxSockets : SocketOpen(i)
  \/ \E i \in 1..MaxSockets, frame \in SimpleFrames : OnMessage(i, frame, 0)

SpecWindows == Init /\ [][NextWindows]_vars

\* ---- subscribing and unsubscribing around the stream, one item per frame ----
NextSubscribe ==
  \/ Len(snapRuns) = 0 /\ Connect(FALSE)
  \/ \E cb \in Callbacks, throws \in BOOLEAN : Subscribe(cb, throws)
  \/ \E cb \in Callbacks : Unsubscribe(cb)
  \/ \E i \in 1..MaxSockets : SocketOpen(i)
  \/ \E i \in 1..MaxSockets, frame \in SimpleFrames, t \in 0..MaxSubscribers :
       t <= Len(subscribers) /\ OnMessage(i, frame, t)

SpecSubscribe == InitCurrent /\ [][NextSubscribe]_vars

\* ---- the batch aggregator up to its calls of processBatch, for every
\* deployment ----
NextBatching ==
  \/ \E topN \in TopNs, batchSize \in BatchSizes : HandlerRequest(topN, batchSize)
  \/ \E res \in PlainTickerResults : HandlerTickerSettle(res)
  \/ HandlerTicker

SpecBatching == InitCurrent /\ [][NextBatching]_vars

\* the deployments of the batch steps: the source's, one that selects one
\* ticker and one that selects all of the list, in at most two batches
BatchDeployments ==
  {<<3000, 80>>, <<1, MaxBatchSize>>, <<MaxTopN, MaxBatchSize>>}

\* ---- the batch aggregator alone, its requests settling and its bodies
\* arriving in any order ----
NextHandler ==
  \/ \E d \in BatchDeployments : HandlerRequest(d[1], d[2])
  \/ \E res \in PlainTickerResults : HandlerTickerSettle(res)
  \/ HandlerTicker
  \/ \E i \in 1..Len(batchCalls), window \in Windows :
         \E outcome \in BatchResults(batchCalls[i].symbols, window) :
           HandlerFetchSettle(i, window, outcome)
  \/ \E i \in 1..MaxTickers : HandlerBody(i)
  \/ \E i \in 1..Len(batchCalls), window \in Windows :
         \E outcome \in BatchResults(batchCalls[i].symbols, window) :
           HandlerLateSettle(i, window, outcome)
  \/ HandlerRespond

SpecHandler == InitCurrent /\ [][NextHandler]_vars

\* the outcomes of the 24h request whose entries all have trades
TradedTickerResults ==
  { r \in PlainTickerResults : \A i \in 1..Len(r.data) : r.data[i].count # 0 }

\* ---- the requests and timers of the batch aggregator: one request with the
\* TOP_N of the source and the largest batch sizes ----
NextTimeouts ==
  \/ \E batchSize \in {MaxBatchSize, 80} : HandlerRequest(3000, batchSize)
  \/ \E res \in TradedTickerResults : HandlerTickerSettle(res)
  \/ HandlerTicker
  \/ \E i \in 1..Len(batchCalls), window \in Windows :
         \E outcome \in BatchResults(batchCalls[i].symbols, window) :
           HandlerFetchSettle(i, window, outcome)
  \/ \E i \in 1..MaxTickers : HandlerBody(i)
  \/ \E i \in 1..Len(batchCalls), window \in Windows :
         \E outcome \in BatchResults(batchCalls[i].symbols, window) :
           HandlerLateSettle(i, window, outcome)
  \/ HandlerRespond

SpecTimeouts == InitCurrent /\ [][NextTimeouts]_vars

\* every upstream request settles (the timer of fetchWithTimeout aborts a
\* fetch that is still pending after 9000 ms), every body that is awaited
\* is read or fails, and the handler runs on when what it awaits has settled
FairTimeouts ==
  /\ SpecTimeouts
  /\ WF_vars(\E res \in TradedTickerResults : HandlerTickerSettle(res))
  /\ WF_vars(HandlerTicker)
  /\ WF_vars(\E i \in 1..Len(batchCalls), window \in Windows :
               \E outcome \in BatchResults(batchCalls[i].symbols, window) :
                 HandlerFetchSettle(i, window, outcome))
  /\ WF_vars(\E i \in 1..MaxTickers : HandlerBody(i))
  /\ WF_vars(\E i \in 1..Len(batchCalls), window \in Windows :
               \E outcome \in BatchResults(batchCalls[i].symbols, window) :
                 HandlerLateSettle(i, window, outcome))
  /\ WF_vars(HandlerRespond)

\* ---- getQuoteAsset alone ----
NextQuote == \E symbol \in QuerySymbols : GetQuoteAsset(symbol)

SpecQuote == InitCurrent /\ [][NextQuote]_vars

\* responses that carry at most one entry
SimpleTickerResponses == {resp \in TickerResponses : Len(resp.items) <= 1}
SimpleAggResponses == {resp \in AggResponses : Len(resp.items) <= 1}

\* ---- the snapshot run against the stream, one entry per response and one
\* item per frame, no subscribers ----
NextRace ==
  \/ Len(snapRuns) = 0 /\ Connect(FALSE)
  \/ \E i \in 1..MaxSockets : SocketOpen(i)
  \/ \E i \in 1..MaxSockets, frame \in SimpleFrames : OnMessage(i, frame, 0)
  \/ \E r \in 1..MaxConnects, resp \in SimpleTickerResponses : TickerResponse(r, resp, 0, 0)
  \/ \E r \in 1..MaxConnects, resp \in SimpleAggResponses : AggregatorResponse(r, resp, 0)
  \/ \E r \in 1..MaxConnects, resp \in InfoResponses : FallbackInfoResponse(r, resp, 0)
  \/ \E r \in 1..MaxConnects, resp \in SimpleTickerResponses :
       FallbackTickerResponse(r, resp, 0, 0)
  \/ \E r \in 1..MaxConnects, info \in InfoResponses, resp \in SimpleTickerResponses :
       ParallelResponse(r, info, resp, 0)

SpecRace == Init /\ [][NextRace]_vars

\* ---- the snapshot run against the stream, the 24h ticker bodies of up to
\* MaxItems entries, a null entry among them; no subscribers ----
NextBodies ==
  \/ Len(snapRuns) = 0 /\ Connect(FALSE)
  \/ \E i \in 1..MaxSockets : SocketOpen(i)
  \/ \E i \in 1..MaxSockets, frame \in SimpleFrames : OnMessage(i, frame, 0)
  \/ \E r \in 1..MaxConnects, resp \in TickerResponses : TickerResponse(r, resp, 0, 0)
  \/ \E r \in 1..MaxConnects, resp \in SimpleAggResponses : AggregatorResponse(r, resp, 0)
  \/ \E r \in 1..MaxConnects, resp \in InfoResponses : FallbackInfoResponse(r, resp, 0)
  \/ \E r \in 1..MaxConnects, resp \in TickerResponses :
       FallbackTickerResponse(r, resp, 0, 0)
  \/ \E r \in 1..MaxConnects, info \in InfoResponses, resp \in TickerResponses :
       ParallelResponse(r, info, resp, 0)

SpecBodies == Init /\ [][NextBodies]_vars

\* ---- the snapshot run, the stream and the lazy fetches, one entry per
\* response and one item per frame, no subscribers ----
NextFields ==
  \/ Len(snapRuns) = 0 /\ Connect(FALSE)
  \/ \E i \in 1..MaxSockets : SocketOpen(i)
  \/ \E i \in 1..MaxSockets, frame \in SimpleFrames : OnMessage(i, frame, 0)
  \/ \E r \in 1..MaxConnects, resp \in SimpleTickerResponses : TickerResponse(r, resp, 0, 0)
  \/ \E r \in 1..MaxConnects, resp \in SimpleAggResponses : AggregatorResponse(r, resp, 0)
  \/ \E r \in 1..MaxConnects, resp \in InfoResponses : FallbackInfoResponse(r, resp, 0)
  \/ \E r \in 1..MaxConnects, resp \in SimpleTickerResponses :
       FallbackTickerResponse(r, resp, 0, 0)
  \/ \E r \in 1..MaxConnects, info \in InfoResponses, resp \in SimpleTickerResponses :
       ParallelResponse(r, info, resp, 0)
  \/ \E sym \in Symbols : FetchDetailedStats(sym)
  \/ \E sym \in Symbols, res1h, res4h \in WindowResponses : DetailsSettle(sym, res1h, res4h, 0)

SpecFields == Init /\ [][NextFields]_vars

\* frames of one item with the first payload of its symbol
KeyFrames == {frame \in SimpleFrames : frame.data.items[1].c = TICK_A.c}

\* ---- everything that runs while the store is filled: one connect(), the
\* first socket closing and the timer reconnecting, disconnect(), one
\* subscriber coming and going, frames, the snapshot run, lazy fetches of
\* one symbol ----
NextKeys ==
  \/ Len(snapRuns) = 0 /\ Connect(FALSE)
  \/ Disconnect
  \/ Len(subscribers) = 0 /\ Subscribe("cb1", FALSE)
  \/ Unsubscribe("cb1")
  \/ \E i \in 1..MaxSockets : SocketOpen(i)
  \/ SocketClose(1)
  \/ TimerFire(TRUE, FALSE)
  \/ \E i \in 1..MaxSockets, frame \in KeyFrames : OnMessage(i, frame, 0)
  \/ \E r \in 1..MaxConnects, resp \in SimpleTickerResponses : TickerResponse(r, resp, 0, 0)
  \/ \E r \in 1..MaxConnects, resp \in SimpleAggResponses : AggregatorResponse(r, resp, 0)
  \/ \E r \in 1..MaxConnects, resp \in InfoResponses : FallbackInfoResponse(r, resp, 0)
  \/ \E r \in 1..MaxConnects, resp \in SimpleTickerResponses :
       FallbackTickerResponse(r, resp, 0, 0)
  \/ \E r \in 1..MaxConnects, info \in InfoResponses, resp \in SimpleTickerResponses :
       ParallelResponse(r, info, resp, 0)
  \/ FetchDetailedStats("BTCUSDT")
  \/ \E res \in WindowResponses : DetailsSettle("BTCUSDT", res, res, 0)

SpecKeys == Init /\ [][NextKeys]_vars

\* ---- the record store: all its producers interleaved, no subscribers ----
NextStore ==
  \/ Len(snapRuns) = 0 /\ Connect(FALSE)
  \/ \E i \in 1..MaxSockets : SocketOpen(i)
  \/ \E i \in 1..MaxSockets, frame \in SimpleFrames : OnMessage(i, frame, 0)
  \/ \E r \in 1..MaxConnects, resp \in TickerResponses : TickerResponse(r, resp, 0, 0)
  \/ \E r \in 1..MaxConnects, resp \in AggResponses : AggregatorResponse(r, resp, 0)
  \/ \E r \in 1..MaxConnects, resp \in InfoResponses : FallbackInfoResponse(r, resp, 0)
  \/ \E r \in 1..MaxConnects, resp \in TickerResponses : FallbackTickerResponse(r, resp, 0, 0)
  \/ \E r \in 1..MaxConnects, info \in InfoResponses, resp \in TickerResponses :
       ParallelResponse(r, info, resp, 0)
  \/ \E sym \in Symbols : FetchDetailedStats(sym)
  \/ \E sym \in Symbols, res1h, res4h \in WindowResponses : DetailsSettle(sym, res1h, res4h, 0)

SpecStore == Init /\ [][NextStore]_vars

\* ---- snapshot acquisition with subscribers, one connect(), disconnect() ----
NextSnapshot ==
  \/ Len(snapRuns) = 0 /\ Connect(FALSE)
  \/ Disconnect
  \/ \E cb \in Callbacks, throws \in BOOLEAN : Subscribe(cb, throws)
  \/ \E cb \in Callbacks : Unsubscribe(cb)
  \/ \E r \in 1..MaxConnects, resp \in TickerResponses, t1, t2 \in 0..MaxSubscribers :
       t1 <= Len(subscribers) /\ t2 <= Len(subscribers) /\ TickerResponse(r, resp, t1, t2)
  \/ \E r \in 1..MaxConnects, resp \in AggResponses, t1 \in 0..MaxSubscribers :
       t1 <= Len(subscribers) /\ AggregatorResponse(r, resp, t1)
  \/ \E r \in 1..MaxConnects, resp \in InfoResponses, t1 \in 0..MaxSubscribers :
       t1 <= Len(subscribers) /\ FallbackInfoResponse(r, resp, t1)
  \/ \E r \in 1..MaxConnects, resp \in TickerResponses, t1, t2 \in 0..MaxSubscribers :
       t1 <= Len(subscribers) /\ t2 <= Len(subscribers)
         /\ FallbackTickerResponse(r, resp, t1, t2)
  \/ \E r \in 1..MaxConnects, info \in InfoResponses, resp \in TickerResponses,
        t1 \in 0..MaxSubscribers :
       t1 <= Len(subscribers) /\ ParallelResponse(r, info, resp, t1)

SpecSnapshot == Init /\ [][NextSnapshot]_vars

\* ---- lazy detail fetches against the stream, with one subscriber ----
SettleDetails(sym) ==
  \E res1h, res4h \in WindowResponses, t \in 0..MaxSubscribers :
    t <= Len(subscribers) /\ DetailsSettle(sym, res1h, res4h, t)

NextLazy ==
  \/ Len(snapRuns) = 0 /\ Connect(FALSE)
  \/ \E throws \in BOOLEAN : Len(subscribers) = 0 /\ Subscribe("cb1", throws)
  \/ \E i \in 1..MaxSockets : SocketOpen(i)
  \/ \E i \in 1..MaxSockets, frame \in SimpleFrames, t \in 0..MaxSubscribers :
       t <= Len(subscribers) /\ OnMessage(i, frame, t)
  \/ \E sym \in Symbols : FetchDetailedStats(sym)
  \/ \E sym \in Symbols : SettleDetails(sym)

SpecLazy == Init /\ [][NextLazy]_vars

\* every request the browser issued settles, so the code after the await of a
\* started fetchDetailedStats call is eventually run
FairLazy == SpecLazy /\ \A sym \in Symbols : WF_vars(SettleDetails(sym))

\* ------------------------------------------------------------------------
\* Properties
\* ------------------------------------------------------------------------
\* the decimal value of the texts the environment sends, written out
Expected(text) ==
  CASE text = <<"1">> -> Num(Scale)
    [] text = <<"2">> -> Num(2 * Scale)
    [] text = <<"3">> -> Num(3 * Scale)
    [] text = <<"4">> -> Num(4 * Scale)
    [] text = <<"7">> -> Num(7 * Scale)
    [] text = <<"8">> -> Num(8 * Scale)
    [] text = <<"0", ".", "5">> -> Num(Scale \div 2)
    [] text = <<"9", ".", "5">> -> Num(9 * Scale + Scale \div 2)
    [] text = <<"3", ".", "2", "5">> -> Num(3 * Scale + Scale \div 4)
    [] text = <<"-", "1", ".", "2", "5">> -> Num(0 - (Scale + Scale \div 4))

\* C1: while the stream is the only producer that wrote the record of a
\* symbol, the record's price is the price of the item merged last for the
\* symbol whatever its window, volume and changePercent24h are those of the
\* last 24h item, changePercent1h that of the last 1h item and
\* changePercent4h that of the last 4h item.
C1_StreamLastWriterWins ==
  \A sym \in Symbols :
    LET h == lastItem[sym]
    IN  (~h.other /\ h.c # NoText) =>
          /\ Has(tickerMap, sym)
          /\ tickerMap[sym].price = Expected(h.c)
          /\ (h.q24 # NoText =>
                /\ tickerMap[sym].volume = Expected(h.q24)
                /\ tickerMap[sym].changePercent24h = Expected(h.P24))
          /\ (h.P1h # NoText => tickerMap[sym].changePercent1h = Expected(h.P1h))
          /\ (h.P4h # NoText => tickerMap[sym].changePercent4h = Expected(h.P4h))

\* a 24h item of the first payload, then a 1h item of the second one
C1_Witness ==
  /\ lastItem["BTCUSDT"].c = TICK_B.c
  /\ lastItem["BTCUSDT"].q24 = TICK_A.q
  /\ lastItem["BTCUSDT"].P1h = TICK_B.P
  /\ Has(tickerMap, "BTCUSDT")
  /\ tickerMap["BTCUSDT"].price = Num(2 * Scale)
  /\ tickerMap["BTCUSDT"].volume = Num(3 * Scale)

\* C2 (as claimed): once changePercent1h or changePercent4h of a record is
\* present, no step makes it absent again.
C2_NeverRegressesToAbsent ==
  [][\A sym \in Symbols :
       Has(tickerMap, sym) =>
         /\ Has(tickerMap', sym)
         /\ (tickerMap[sym].changePercent1h # Undefined
               => tickerMap'[sym].changePercent1h # Undefined)
         /\ (tickerMap[sym].changePercent4h # Undefined
               => tickerMap'[sym].changePercent4h # Undefined)]_vars

\* sockets that are connecting or open with their close and error handlers
\* attached
LiveSockets ==
  {i \in 1..Len(sockets) :
     sockets[i].readyState \in {CONNECTING, OPEN} /\ sockets[i].onclose /\ sockets[i].onerror}

\* C3 (as claimed): at most one socket of the service is connecting or open
\* with its handlers attached.
C3_OneLiveSocket == Cardinality(LiveSockets) <= 1

\* C4 (as claimed): after disconnect(), until connect() is called again, no
\* reconnect timer is pending and the service holds no socket.
C4_DisconnectIsFinal == disconnected => (timers = 0 /\ ws = 0)

\* C5 (as claimed): after disconnect(), with no further public operation, no
\* step invokes a subscriber callback.
C5_NoNotifyAfterDisconnect == quiet => invoked = <<>>

\* C6: no symbol has more than one fetchDetailedStats call awaiting its
\* requests, and a call for a symbol whose fetch is in flight changes nothing.
C6_OneFetchPerSymbol ==
  /\ [](\A sym \in Symbols : lazyCalls[sym] <= 1)
  /\ [][\A sym \in Symbols :
          (sym \in pendingFetches /\ FetchDetailedStats(sym))
            => UNCHANGED <<tickerMap, subscribers, pendingFetches, lazyCalls, snapRuns,
                           delivered, connVars>>]_vars

\* the requests of both symbols are in flight, one call each
C6_Witness ==
  /\ pendingFetches = Symbols
  /\ \A sym \in Symbols : lazyCalls[sym] = 1

\* C7: the step that applies the results of a lazy fetch leaves a
\* changePercent1h or changePercent4h that is present as it is.
C7_FetchNeverOverwrites ==
  [][\A sym \in Symbols :
       (lazyCalls'[sym] < lazyCalls[sym] /\ Has(tickerMap, sym)) =>
         /\ (tickerMap[sym].changePercent1h # Undefined
               => tickerMap'[sym].changePercent1h = tickerMap[sym].changePercent1h)
         /\ (tickerMap[sym].changePercent4h # Undefined
               => tickerMap'[sym].changePercent4h = tickerMap[sym].changePercent4h)]_vars

\* a settled fetch behind a record whose 1h value came from the stream and
\* whose 4h value came from the fetch
C7_Witness ==
  /\ Has(tickerMap, "BTCUSDT")
  /\ tickerMap["BTCUSDT"].changePercent1h = Expected(TICK_B.P)
  /\ tickerMap["BTCUSDT"].changePercent4h = Expected(<<"3", ".", "2", "5">>)
  /\ lazyCalls["BTCUSDT"] = 0
  /\ frames = 1

\* C8: a symbol in pendingFetches is eventually removed from it, and it is in
\* the set only while a call for it awaits its requests, so that a later call
\* issues requests again.
C8_MarkerReleased ==
  /\ \A sym \in Symbols : (sym \in pendingFetches) ~> (sym \notin pendingFetches)
  /\ [](\A sym \in Symbols : sym \in pendingFetches => lazyCalls[sym] > 0)

\* a fetch has run to its end and released its marker
C8_Witness ==
  /\ Has(tickerMap, "BTCUSDT")
  /\ tickerMap["BTCUSDT"].changePercent1h = Expected(<<"3", ".", "2", "5">>)
  /\ "BTCUSDT" \notin pendingFetches
  /\ lazyCalls["BTCUSDT"] = 0

\* C9 (as claimed): a run of fetchInitialSnapshot that has ended has called
\* notify at least once.
C9_SnapshotAlwaysNotifies ==
  \A r \in 1..Len(snapRuns) : snapRuns[r].pc = "done" => snapRuns[r].notified >= 1

\* the delays of the claim for failures 0..5, in hundredths of a millisecond
DelayTable == <<100000, 150000, 225000, 337500, 506250, 759375>>

ExpectedDelay(k) ==
  IF k < Len(DelayTable) THEN DelayTable[k + 1] * (Scale \div 100) ELSE 10000 * Scale

\* C10: the step that handles the k-th consecutive connection failure arms a
\* timer of min(1000 * 1.5^k, 10000) ms.
C10_BackoffDelay ==
  [][consecFailures' = consecFailures + 1 =>
       /\ reconnectTimeoutId' = "armed"
       /\ timerDelay' = ExpectedDelay(consecFailures)]_vars

\* the seventh consecutive failure armed the capped delay
C10_Witness ==
  /\ consecFailures = 7
  /\ reconnectTimeoutId = "armed"
  /\ timerDelay = 10000 * Scale

\* C11 (as claimed): the endpoint index stays within the endpoint list, a
\* connection failure advances it by one modulo the number of endpoints and
\* no other step changes it, and the socket whose close is handled was
\* connected to the endpoint the index names, so that consecutive failures
\* are failures of consecutive endpoints.
C11_EndpointRotation ==
  /\ [](endpointIndex \in 0..(BASE_WS_URLS_length - 1))
  /\ [][IF consecFailures' = consecFailures + 1
          THEN endpointIndex' = (endpointIndex + 1) % BASE_WS_URLS_length
          ELSE endpointIndex' = endpointIndex]_vars
  /\ [][\A i \in 1..Len(sockets) :
          (sockets[i].onclose /\ sockets[i].readyState # CLOSED
             /\ sockets'[i].readyState = CLOSED)
            => sockets[i].url = endpointIndex]_vars

\* a step that handles a connection failure
FailureStep == consecFailures' = consecFailures + 1

\* the model cannot take another connect attempt
AttemptsExhausted == Len(sockets) = MaxSockets /\ reconnectAttempt = MaxAttempt

\* C12: the close or error of the current socket clears the socket reference;
\* every failure step, a throwing constructor included, leaves exactly one
\* reconnect timer pending; a pending timer goes away only by disconnect() or
\* by a step that creates a socket; and a pending timer eventually fires or is
\* cancelled.
C12_FailureLeadsToReconnect ==
  /\ [][(FailureStep /\ ws # 0 /\ sockets'[ws].readyState # sockets[ws].readyState)
          => ws' = 0]_vars
  /\ [][FailureStep => (timers' = 1 /\ reconnectTimeoutId' = "armed")]_vars
  /\ [][timers' < timers => (disconnected' \/ Len(sockets') = Len(sockets) + 1)]_vars
  /\ \A k \in 0..MaxAttempt :
       (reconnectTimeoutId = "armed" /\ reconnectAttempt = k)
         ~> (reconnectTimeoutId # "armed" \/ reconnectAttempt # k \/ AttemptsExhausted)

\* the socket the timer of the first failure created has failed as well
C12_Witness ==
  /\ Len(sockets) = 2
  /\ sockets[1].readyState = CLOSED /\ sockets[1].onclose
  /\ sockets[2].readyState = CLOSED /\ sockets[2].onclose
  /\ sockets[2].url = 1
  /\ reconnectTimeoutId = "armed"
  /\ timers = 1
  /\ ws = 0
  /\ ~disconnected

\* ---- steps of ws.onmessage, by the frame handled ----
FrameStep(frame) ==
  \E i \in 1..Len(sockets), t \in ThrowChoices(subscribers) : OnMessage(i, frame, t)

\* the frame is JSON with a stream name and a data payload without null items
Decodes(frame) ==
  /\ frame.parses
  /\ frame.hasStream
  /\ frame.data.kind # "absent"
  /\ \A k \in 1..Len(frame.data.items) : ~frame.data.items[k].isNull

\* the symbols of the items of a frame
FrameSymbols(frame) ==
  {frame.data.items[k].s : k \in {j \in 1..Len(frame.data.items) : ~frame.data.items[j].isNull}}

\* the last item of the frame for sym
LastFor(frame, sym) ==
  LET ks == {k \in 1..Len(frame.data.items) : frame.data.items[k].s = sym}
  IN  frame.data.items[CHOOSE k \in ks : \A j \in ks : j <= k]

\* C13 (as claimed): handling a frame that decodes invokes every registered
\* subscriber once, in one pass, and the store then holds the merge of every
\* item of the frame.
C13_OnePassAfterMerges ==
  [][\A frame \in Frames :
       (FrameStep(frame) /\ Decodes(frame)) =>
         /\ invoked' = subscribers
         /\ \A sym \in FrameSymbols(frame) :
              /\ Has(tickerMap', sym)
              /\ tickerMap'[sym].price = Expected(LastFor(frame, sym).c)]_vars

\* the fields a window leaves alone, stream names compared as whole texts
Untouched(stream) ==
  IF stream = STREAM_1H THEN {"volume", "changePercent24h", "changePercent4h"}
  ELSE IF stream = STREAM_4H THEN {"volume", "changePercent24h", "changePercent1h"}
  ELSE {"changePercent1h", "changePercent4h"}

\* the value of a field of the record of sym, or what a record that does not
\* exist yet starts with
FieldBefore(sym, field) ==
  IF Has(tickerMap, sym) THEN tickerMap[sym][field]
  ELSE IF field \in {"changePercent1h", "changePercent4h"} THEN Undefined
  ELSE Num(0)

\* C14: a frame with a stream name and data leaves the records of the symbols
\* it does not mention as they are, and in the record of a symbol it mentions
\* it leaves the symbol and the fields of the other windows as they are (for
\* a record it creates: as a new record has them).
C14_WindowFields ==
  [][\A frame \in {f \in Frames : f.parses /\ f.hasStream /\ f.data.kind # "absent"} :
       FrameStep(frame) =>
         /\ \A sym \in Symbols \ FrameSymbols(frame) :
              /\ Has(tickerMap', sym) = Has(tickerMap, sym)
              /\ Has(tickerMap, sym) => tickerMap'[sym] = tickerMap[sym]
         /\ \A sym \in FrameSymbols(frame) :
              Has(tickerMap', sym) =>
                /\ tickerMap'[sym].symbol = sym
                /\ \A field \in Untouched(frame.stream) :
                     tickerMap'[sym][field] = FieldBefore(sym, field)]_vars

\* a 4h item of the second payload after a 24h item of the first one
C14_Witness ==
  /\ Has(tickerMap, "BTCUSDT")
  /\ lastItem["BTCUSDT"].q24 = TICK_A.q
  /\ lastItem["BTCUSDT"].P4h = TICK_B.P
  /\ tickerMap["BTCUSDT"].price = Num(2 * Scale)
  /\ tickerMap["BTCUSDT"].volume = Num(3 * Scale)
  /\ tickerMap["BTCUSDT"].changePercent24h = Num(Scale \div 2)
  /\ tickerMap["BTCUSDT"].changePercent1h = Undefined
  /\ tickerMap["BTCUSDT"].changePercent4h = Num(0 - (Scale + Scale \div 4))

\* C15: a frame whose data is absent leaves tickerMap as it is and invokes no
\* callback.
C15_AbsentDataNoOp ==
  [][\A frame \in {f \in Frames : f.parses /\ f.data.kind = "absent"} :
       FrameStep(frame) =>
         /\ tickerMap' = tickerMap
         /\ invoked' = <<>>]_vars

\* a second frame that left a filled store and its subscriber alone
C15_Witness ==
  /\ frames = 2
  /\ subscribers = <<"cb1">>
  /\ invoked = <<>>
  /\ DOMAIN tickerMap = {"ETHBTC"}
  /\ lastItem["ETHBTC"].q24 = TICK_A.q
  /\ lastItem["ETHBTC"].P1h = NoText

\* C16 (as claimed): a frame that fails to decode, by its text, by a missing
\* stream name or by a null item in its data, leaves tickerMap and the
\* connection as they are.
C16_FailedFrameNoEffect ==
  [][\A frame \in Frames :
       (FrameStep(frame) /\ ~Decodes(frame) /\ (frame.parses => frame.data.kind # "absent")) =>
         /\ tickerMap' = tickerMap
         /\ UNCHANGED connVars]_vars

\* C17 (as claimed): what a subscriber sees through the copy it was handed,
\* the symbols and every field of their records, stays as it was when the copy
\* was handed out.
C17_CopiesImmutable ==
  [][delivered.has => (delivered'.has /\ delivered'.map = delivered.map)]_vars

Registered(subs) == {subs[k] : k \in 1..Len(subs)}

\* C18: a step that registers a callback appends it to the subscribers, leaves
\* the store alone and invokes that callback once, with a copy of the store,
\* when the store holds a record and nothing when it holds none; a registered
\* callback stays registered until its unsubscribe handle removes it.
C18_SubscribeReplaysOnce ==
  /\ [][Len(subscribers') = Len(subscribers) + 1 =>
          /\ SubSeq(subscribers', 1, Len(subscribers)) = subscribers
          /\ tickerMap' = tickerMap
          /\ invoked' = IF tickerMap = EmptyMap THEN <<>>
                        ELSE <<subscribers'[Len(subscribers')]>>
          /\ (~delivered.has /\ tickerMap # EmptyMap) =>
               (delivered'.has /\ delivered'.map = tickerMap)]_vars
  /\ [][\A cb \in Registered(subscribers) :
          \/ cb \in Registered(subscribers')
          \/ subscribers' = SelectSeq(subscribers, LAMBDA x : x # cb)]_vars

\* cb2 was registered on a filled store after cb1 and was handed its copy
C18_Witness ==
  /\ subscribers = <<"cb1", "cb2">>
  /\ invoked = <<"cb2">>
  /\ frames = 1
  /\ DOMAIN tickerMap = {"BTCUSDT"}
  /\ delivered.has
  /\ delivered.map = tickerMap

\* C19 (as claimed): a callback that is not registered is not invoked, and
\* when the unsubscribe handle of cb is called by the k-th callback of a
\* notify pass, cb is not invoked in the rest of that pass while every other
\* subscriber is.
C19_UnsubscribedNeverInvoked ==
  /\ [][\A cb \in Callbacks :
          (cb \notin Registered(subscribers) /\ cb \notin Registered(subscribers'))
            => cb \notin Registered(invoked')]_vars
  /\ [][\A frame \in {f \in Frames : Decodes(f)}, k \in 1..Len(subscribers), cb \in Callbacks :
          (\E i \in 1..Len(sockets) : OnMessageUnsub(i, frame, k, cb)) =>
            /\ \A j \in (k + 1)..Len(invoked') : invoked'[j] # cb
            /\ \A other \in Registered(subscribers) \ {cb} :
                 other \in Registered(invoked')]_vars

\* the entries of the list with a nonzero trade count, counted one by one
RECURSIVE NonzeroCount(_)
NonzeroCount(list) ==
  IF list = <<>> THEN 0
  ELSE (IF list[1].count # 0 THEN 1 ELSE 0) + NonzeroCount(Tail(list))

\* the least k with k * b >= x
Ceil(x, b) == CHOOSE k \in 0..x : k * b >= x /\ \A j \in 0..(k - 1) : j * b < x

\* C20: once the 24h list has arrived, the handler has made exactly
\* ceil(min(m, N) / b) calls of processBatch, m the number of entries with a
\* nonzero trade count, each with one 1h and one 4h request, and none when
\* m = 0.
C20_BatchCalls ==
  handlerPc = "batches" =>
    LET m == NonzeroCount(tickerData)
    IN  /\ Len(batchCalls) = Ceil(Min(m, TOP_N), BATCH_SIZE)
        /\ \A i \in 1..Len(batchCalls) :
             batchCalls[i].requests1h = 1 /\ batchCalls[i].requests4h = 1
        /\ m = 0 => batchCalls = <<>>

\* three valid entries in batches of two: two calls, the second of one symbol
C20_Witness ==
  /\ handlerPc = "batches"
  /\ NonzeroCount(tickerData) = 3
  /\ TOP_N = 3
  /\ BATCH_SIZE = 2
  /\ Len(batchCalls) = 2
  /\ Len(batchCalls[2].symbols) = 1

\* a windowed request failed: by its status, by a thrown failure of the
\* fetch, or by a body that throws when it is read (json() rejects, or an
\* entry of the list is null)
Failed(res) ==
  \/ res.kind \in {"status", "throws", "badBody"}
  \/ res.kind = "ok" /\ \E j \in 1..Len(res.data) : res.data[j].isNull

\* a windowed request succeeded: a success status and a list with an entry
\* for every symbol of the batch
Succeeded(res, batchSymbols) ==
  /\ res.kind = "ok"
  /\ ~ \E j \in 1..Len(res.data) : res.data[j].isNull
  /\ \A k \in 1..Len(batchSymbols) :
       \E j \in 1..Len(res.data) : res.data[j].symbol = batchSymbols[k]

\* the batches whose 1h request failed
Failed1h == {i \in 1..Len(batchCalls) : Failed(batchCalls[i].res1h)}

\* the batch of the call a symbol was sent with, 0 when it was in none
BatchOf(sym) ==
  IF \E i \in 1..Len(batchCalls) :
       \E k \in 1..Len(batchCalls[i].symbols) : batchCalls[i].symbols[k] = sym
    THEN CHOOSE i \in 1..Len(batchCalls) :
           \E k \in 1..Len(batchCalls[i].symbols) : batchCalls[i].symbols[k] = sym
    ELSE 0

\* C21 (as claimed): when the 1h request of exactly one batch has failed, by
\* its status or by a thrown failure, and every other request has succeeded,
\* the answer has status 200, null as changePercent1h in every record of that
\* batch and the reported 1h value in every record of another batch.
C21_OneBatchFails ==
  (/\ handlerPc = "done"
   /\ batchCalls # <<>>
   /\ Cardinality(Failed1h) = 1
   /\ \A i \in 1..Len(batchCalls) :
        /\ Succeeded(batchCalls[i].res4h, batchCalls[i].symbols)
        /\ i \notin Failed1h => Succeeded(batchCalls[i].res1h, batchCalls[i].symbols))
    =>
      /\ response.status = 200
      /\ \A k \in 1..Len(response.body) :
           LET b == BatchOf(response.body[k].symbol)
           IN  /\ b \in Failed1h => response.body[k].changePercent1h = NullNum
               /\ (b # 0 /\ b \notin Failed1h) =>
                    response.body[k].changePercent1h = Num(Scale \div 2)

\* C22: the handler answers 500, with the log in the payload, exactly when
\* the 24h ticker request fails (thrown or aborted, a status that is not a
\* success, a body that cannot be used); once the list has arrived the only
\* answer is 200 with one record per valid ticker, whatever the requests of
\* the batches did.
C22_FatalOnlyInStepOne ==
  /\ [][handlerPc = "ticker" =>
          /\ \A res \in TickerResults :
               HandlerTickerSettle(res) =>
                 IF res.kind = "throws"
                   THEN /\ response'.status = 500
                        /\ handlerPc' = "done"
                        /\ response'.logs # <<>>
                   ELSE handlerPc' = "ticker" /\ response' = noResponse
          /\ HandlerTicker =>
               /\ (tickerRes.kind # "ok") <=> (response'.status = 500)
               /\ tickerRes.kind # "ok" => (handlerPc' = "done" /\ response'.logs # <<>>)
               /\ tickerRes.kind = "ok" =>
                    (handlerPc' = "batches" /\ response' = noResponse)]_vars
  /\ [](handlerPc = "batches" => response = noResponse)
  /\ [][handlerPc = "batches" =>
          /\ handlerPc' \in {"batches", "done"}
          /\ handlerPc' = "done" =>
               /\ response'.status = 200
               /\ Len(response'.body) = NonzeroCount(tickerData)]_vars
  /\ [](handlerPc = "done" => response.status \in {200, 500})

\* every request of both batches failed, one by a thrown failure, and the
\* answer is 200
C22_Witness ==
  /\ handlerPc = "done"
  /\ Len(batchCalls) = 2
  /\ batchCalls[1].res1h.kind = "throws"
  /\ batchCalls[1].res4h.kind = "status"
  /\ batchCalls[2].res1h.kind = "status"
  /\ batchCalls[2].res4h.kind = "throws"
  /\ response.status = 200
  /\ response.body # <<>>

\* the records of the answer for a symbol
RecordsFor(sym) == {k \in 1..Len(response.body) : response.body[k].symbol = sym}

\* C23: a 200 answer holds one record for every entry of the 24h list with a
\* nonzero trade count, selected or not, and none for another entry; the 1h
\* and 4h fields of a record are the values the lookup maps hold for its
\* symbol, and null where a map does not have the symbol.
C23_MergedArray ==
  (handlerPc = "done" /\ response.status = 200) =>
    /\ \A i \in 1..Len(tickerData) :
         Cardinality(RecordsFor(tickerData[i].symbol)) =
           (IF tickerData[i].count # 0 THEN 1 ELSE 0)
    /\ Len(response.body) = NonzeroCount(tickerData)
    /\ \A k \in 1..Len(response.body) :
         LET rec == response.body[k]
         IN  /\ rec.changePercent1h =
                  (IF rec.symbol \in DOMAIN map1h THEN Num(Scale \div 2) ELSE NullNum)
             /\ rec.changePercent4h =
                  (IF rec.symbol \in DOMAIN map4h THEN Num(0 - (Scale + Scale \div 4))
                   ELSE NullNum)
             /\ rec.price = Num(7 * Scale)
             /\ rec.changePercent24h = Num(9 * Scale + Scale \div 2)

\* three valid tickers, one selected: the two beyond the selection are in the
\* answer with null windows
C23_Witness ==
  /\ handlerPc = "done"
  /\ response.status = 200
  /\ TOP_N = 1
  /\ NonzeroCount(tickerData) = 3
  /\ Len(response.body) = 3
  /\ response.body[1].changePercent1h = Num(Scale \div 2)
  /\ response.body[1].changePercent4h = Num(0 - (Scale + Scale \div 4))
  /\ response.body[2].changePercent1h = NullNum
  /\ response.body[3].changePercent4h = NullNum

\* suf is what is left of s behind one of its prefixes
IsSuffix(suf, s) == \E n \in 0..Len(s) : SubSeq(s, 1, n) \o suf = s

\* the catalog entries that are a suffix of s, by position
SuffixEntries(s) ==
  {i \in 1..Len(KNOWN_QUOTE_ASSETS) : IsSuffix(KNOWN_QUOTE_ASSETS[i], s)}

\* C24: getQuoteAsset returns the entry of lowest position among the catalog
\* entries that are a suffix of the symbol, and null when there is none;
\* ETHUSDT and USDCUSDT both give USDT.
C24_FirstSuffixWins ==
  quoteResult # NotCalled =>
    /\ SuffixEntries(symbolArg) = {} => quoteResult = JSNull
    /\ SuffixEntries(symbolArg) # {} =>
         \E i \in SuffixEntries(symbolArg) :
           /\ \A j \in SuffixEntries(symbolArg) : i <= j
           /\ quoteResult = KNOWN_QUOTE_ASSETS[i]
    /\ symbolArg = <<"E", "T", "H", "U", "S", "D", "T">> => quoteResult = <<"U", "S", "D", "T">>
    /\ symbolArg = <<"U", "S", "D", "C", "U", "S", "D", "T">> =>
         quoteResult = <<"U", "S", "D", "T">>

\* USDCUSDT was asked about
C24_Witness ==
  /\ symbolArg = <<"U", "S", "D", "C", "U", "S", "D", "T">>
  /\ quoteResult = <<"U", "S", "D", "T">>

\* C25: no catalog entry that is a suffix of the symbol is longer than the
\* entry getQuoteAsset returned, and no catalog entry is a proper suffix of a
\* later one.
C25_FirstIsLongest ==
  /\ quoteResult \notin {NotCalled, JSNull} =>
       \A i \in SuffixEntries(symbolArg) : Len(KNOWN_QUOTE_ASSETS[i]) <= Len(quoteResult)
  /\ \A i, j \in 1..Len(KNOWN_QUOTE_ASSETS) :
       i < j => ~IsSuffix(KNOWN_QUOTE_ASSETS[i], KNOWN_QUOTE_ASSETS[j])

\* XAEUR ends in both AEUR and EUR
C25_Witness ==
  /\ symbolArg = <<"X", "A", "E", "U", "R">>
  /\ quoteResult = <<"A", "E", "U", "R">>
  /\ Cardinality(SuffixEntries(symbolArg)) = 2

\* C26: connect() while the current socket is connecting or open creates no
\* socket and leaves the current socket, its handlers, the attempt counter,
\* the endpoint index and the timer as they are; so does a timer callback
\* that finds such a socket.
C26_ConnectIsIdempotent ==
  [][(/\ ws # 0
      /\ sockets[ws].readyState \in {"CONNECTING", "OPEN"}
      /\ (Len(snapRuns') = Len(snapRuns) + 1 \/ timers' < timers))
       =>
         /\ sockets' = sockets
         /\ ws' = ws
         /\ reconnectAttempt' = reconnectAttempt
         /\ endpointIndex' = endpointIndex
         /\ Len(snapRuns') = Len(snapRuns) + 1 =>
              UNCHANGED <<reconnectTimeoutId, timers, timerDelay>>]_vars

\* connect() was called twice and the socket of the first call is the only one
C26_Witness ==
  /\ Len(snapRuns) = 2
  /\ Len(sockets) = 1
  /\ ws = 1
  /\ sockets[1].readyState = OPEN
  /\ sockets[1].onclose
  /\ reconnectAttempt = 0
  /\ endpointIndex = 0
  /\ timers = 0

\* C28: at most one reconnect timer is pending.
C28_OneTimer == timers <= 1

\* a timer is pending after three failures in a row
C28_Witness ==
  /\ timers = 1
  /\ reconnectTimeoutId = "armed"
  /\ consecFailures = 3
  /\ reconnectAttempt = 3

\* C30: when one window request of a lazy fetch fails (non-success status or
\* rejected request) and the other succeeds, the step that settles the call
\* applies the successful window's value to a record that lacks the field and
\* leaves the failed window's field as it was.
C30_WindowsFailIndependently ==
  [][\A sym \in {x \in Symbols : lazyCalls[x] > 0 /\ Has(tickerMap, x)} :
       \A bad \in {w \in WindowResponses : w.kind \in {"reject", "status"}},
          good \in {w \in WindowResponses : w.kind = "ok" /\ w.hasBody},
          t \in 0..Len(subscribers) :
         /\ DetailsSettle(sym, bad, good, t) =>
              /\ tickerMap'[sym].changePercent1h = tickerMap[sym].changePercent1h
              /\ tickerMap[sym].changePercent4h = Undefined =>
                   tickerMap'[sym].changePercent4h = Expected(good.priceChangePercent)
         /\ DetailsSettle(sym, good, bad, t) =>
              /\ tickerMap'[sym].changePercent4h = tickerMap[sym].changePercent4h
              /\ tickerMap[sym].changePercent1h = Undefined =>
                   tickerMap'[sym].changePercent1h = Expected(good.priceChangePercent)]_vars

\* a source answered with a success status and an array of entries
SourceSucceeded(resp) ==
  /\ resp.kind = "ok"
  /\ \A i \in 1..Len(resp.items) : ~resp.items[i].isNull

\* C27: a run starts at the first source; the step that handles a source's
\* response moves the run to the next source only when that source failed,
\* and when the source succeeded the run ends there and contacts no further
\* source (current revision: the API domains in order; cascade revision: the
\* aggregator before the fallback).
C27_SourcesInPriorityOrder ==
  /\ [][Len(snapRuns') = Len(snapRuns) + 1 =>
          /\ snapRuns'[Len(snapRuns')].domain = 0
          /\ snapRuns'[Len(snapRuns')].pc \in {"ticker24", "aggregator", "both"}]_vars
  /\ [][\A r \in {x \in 1..Len(snapRuns) : revision = "current" /\ snapRuns[x].pc = "ticker24"} :
          \A resp \in TickerResponses, t1, t2 \in 0..Len(subscribers) :
            TickerResponse(r, resp, t1, t2) =>
              IF SourceSucceeded(resp)
                THEN /\ snapRuns'[r].pc = "done"
                     /\ snapRuns'[r].domain = snapRuns[r].domain
                ELSE snapRuns'[r].pc = "ticker24" =>
                       snapRuns'[r].domain = snapRuns[r].domain + 1]_vars
  /\ [][\A r \in {x \in 1..Len(snapRuns) : revision = "cascade" /\ snapRuns[x].pc = "aggregator"} :
          \A resp \in AggResponses, t1 \in 0..Len(subscribers) :
            (AggregatorResponse(r, resp, t1) /\ SourceSucceeded(resp)) =>
              snapRuns'[r].pc = "done"]_vars

\* the positions of a response's entries for sym that the snapshot step
\* writes: before any null entry, among the admitted symbols, and with trades
\* where the revision filters on count
AppliedAt(items, sym, admitted, needsTrades) ==
  {k \in 1..Len(items) :
     /\ \A j \in 1..k : ~items[j].isNull
     /\ items[k].symbol = sym
     /\ sym \in admitted
     /\ needsTrades => items[k].count # 0}

\* the greatest member of a nonempty set of positions
LastOf(ks) == CHOOSE k \in ks : \A j \in ks : j <= k

\* the record of sym carries the values of an entry of /api/v3/ticker/24hr
HoldsRest(map, sym, item) ==
  /\ Has(map, sym)
  /\ map[sym].price = Expected(item.lastPrice)
  /\ map[sym].volume = Expected(item.quoteVolume)
  /\ map[sym].changePercent24h = Expected(item.priceChangePercent)

\* the record of sym carries the values of a record of /api/snapshot
HoldsAgg(map, sym, record) ==
  /\ Has(map, sym)
  /\ map[sym].price = record.price
  /\ map[sym].volume = record.volume
  /\ map[sym].changePercent24h = record.changePercent24h

\* the positions of a frame's items for sym that are merged
MergedAt(frame, sym) ==
  {k \in 1..Len(frame.data.items) :
     /\ \A j \in 1..k : ~frame.data.items[j].isNull
     /\ frame.data.items[k].s = sym}

\* C29: whatever the record of a symbol held before (values of the stream or
\* of a snapshot), after a snapshot step that writes the symbol its price,
\* volume and changePercent24h are those of the snapshot entry written last,
\* and after a frame that merges the symbol its price is that of the item
\* merged last and, for a frame of the 24h stream, so are its volume and
\* changePercent24h: the writer that completes last wins.
C29_LastWriterWins ==
  /\ [][(Len(snapRuns') = Len(snapRuns) /\ snapRuns' # snapRuns) =>
          \A r \in {x \in 1..Len(snapRuns) : snapRuns'[x] # snapRuns[x]} :
            \A sym \in Symbols, t1, t2 \in 0..Len(subscribers) :
              /\ \A resp \in {x \in SimpleTickerResponses :
                                x.kind = "ok" /\ AppliedAt(x.items, sym, Symbols, TRUE) # {}} :
                   TickerResponse(r, resp, t1, t2) =>
                     HoldsRest(tickerMap', sym,
                               resp.items[LastOf(AppliedAt(resp.items, sym, Symbols, TRUE))])
              /\ \A resp \in {x \in SimpleTickerResponses :
                                /\ x.kind = "ok"
                                /\ AppliedAt(x.items, sym, snapRuns[r].trading, FALSE) # {}} :
                   FallbackTickerResponse(r, resp, t1, t2) =>
                     HoldsRest(tickerMap', sym,
                               resp.items[LastOf(AppliedAt(resp.items, sym,
                                                           snapRuns[r].trading, FALSE))])
              /\ \A resp \in {x \in SimpleTickerResponses :
                                x.kind = "ok" /\ AppliedAt(x.items, sym, Symbols, FALSE) # {}},
                    info \in {x \in InfoResponses :
                                x.kind = "ok" /\ x.status[sym] = "TRADING"} :
                   ParallelResponse(r, info, resp, t1) =>
                     HoldsRest(tickerMap', sym,
                               resp.items[LastOf(AppliedAt(resp.items, sym, Symbols, FALSE))])
              /\ \A resp \in {x \in SimpleAggResponses :
                                x.kind = "ok" /\ AppliedAt(x.items, sym, Symbols, FALSE) # {}} :
                   AggregatorResponse(r, resp, t1) =>
                     HoldsAgg(tickerMap', sym,
                              resp.items[LastOf(AppliedAt(resp.items, sym, Symbols, FALSE))])]_vars
  /\ [][frames' = frames + 1 =>
          \A sym \in Symbols :
            \A frame \in {f \in SimpleFrames : MergedAt(f, sym) # {}} :
              FrameStep(frame) =>
                LET item == frame.data.items[LastOf(MergedAt(frame, sym))]
                IN  /\ Has(tickerMap', sym)
                    /\ tickerMap'[sym].price = Expected(item.c)
                    /\ frame.stream = STREAM_24H =>
                         /\ tickerMap'[sym].volume = Expected(item.q)
                         /\ tickerMap'[sym].changePercent24h = Expected(item.P)]_vars

\* the only frame handled created the record, and a snapshot step that
\* completed after it replaced the frame's values with its own
C29_Witness ==
  /\ revision = "current"
  /\ frames = 1
  /\ DOMAIN tickerMap = {"BTCUSDT"}
  /\ lastItem["BTCUSDT"].other
  /\ tickerMap["BTCUSDT"].price = Num(7 * Scale)
  /\ tickerMap["BTCUSDT"].volume = Num(8 * Scale)
  /\ tickerMap["BTCUSDT"].changePercent24h = Num(9 * Scale + Scale \div 2)
  /\ Len(snapRuns) = 1
  /\ snapRuns[1].pc = "done"

\* the request returned a success status with an entry for the symbol
HasEntry(res, sym) ==
  /\ res.kind = "ok"
  /\ \E j \in 1..Len(res.data) : ~res.data[j].isNull /\ res.data[j].symbol = sym

\* C31 (as claimed): in a 200 answer, the record of a symbol that was sent
\* with batch i has a 1h value exactly when the 1h request of batch i
\* returned a success status with an entry for the symbol, and a 4h value
\* exactly when its 4h request did, whatever the other request of the batch
\* and the requests of other batches did.
C31_WindowsIndependent ==
  (handlerPc = "done" /\ response.status = 200) =>
    \A k \in 1..Len(response.body) :
      LET b == BatchOf(response.body[k].symbol)
      IN  b # 0 =>
            /\ (response.body[k].changePercent1h # NullNum)
                 <=> HasEntry(batchCalls[b].res1h, response.body[k].symbol)
            /\ (response.body[k].changePercent4h # NullNum)
                 <=> HasEntry(batchCalls[b].res4h, response.body[k].symbol)

\* some request of some batch did not succeed
SomeRequestFailed ==
  \E i \in 1..Len(batchCalls) :
    \/ Failed(batchCalls[i].res1h)
    \/ Failed(batchCalls[i].res4h)

\* C36: in a 200 answer the debug status is Partial exactly when a request of
\* a batch failed by its status, by a thrown failure or by a body that throws
\* when it is read, and Success exactly when none did, and the error list
\* header is set exactly in the Partial case.
C36_DebugStatus ==
  (handlerPc = "done" /\ response.status = 200) =>
    /\ (response.debugStatus = "Partial") <=> SomeRequestFailed
    /\ (response.debugStatus = "Success") <=> ~SomeRequestFailed
    /\ ("X-Debug-Errors" \in response.headers) <=> (response.debugStatus = "Partial")
    /\ "X-Debug-Status" \in response.headers

\* two batches; only the 4h request of the second failed, by its status
C36_Witness ==
  /\ handlerPc = "done"
  /\ response.status = 200
  /\ Len(batchCalls) = 2
  /\ Succeeded(batchCalls[1].res1h, batchCalls[1].symbols)
  /\ Succeeded(batchCalls[1].res4h, batchCalls[1].symbols)
  /\ Succeeded(batchCalls[2].res1h, batchCalls[2].symbols)
  /\ batchCalls[2].res4h.kind = "status"
  /\ response.debugStatus = "Partial"
  /\ "X-Debug-Errors" \in response.headers

RECURSIVE Flatten(_)
\* the symbols of the batches, one batch after the other
Flatten(calls) ==
  IF calls = <<>> THEN <<>> ELSE calls[1].symbols \o Flatten(Tail(calls))

\* the quote volume the 24h list reports for a symbol, as a number
VolumeOf(sym) ==
  LET i == CHOOSE j \in 1..Len(tickerData) : tickerData[j].symbol = sym
  IN  Expected(tickerData[i].quoteVolume)[2]

\* the symbols of the list with a nonzero trade count
TradedSymbols ==
  {tickerData[i].symbol : i \in {j \in 1..Len(tickerData) : tickerData[j].count # 0}}

\* C37: the batches, one after the other, list min(m, N) distinct symbols of
\* entries with a nonzero trade count, in descending order of quote volume,
\* none of them with less volume than an entry left out; every batch holds
\* at most b symbols and every batch but the last exactly b.
C37_BatchesPartition ==
  handlerPc = "batches" =>
    LET selected == Flatten(batchCalls)
    IN  /\ Len(selected) = Min(NonzeroCount(tickerData), TOP_N)
        /\ \A j \in 1..Len(selected) : selected[j] \in TradedSymbols
        /\ \A j1, j2 \in 1..Len(selected) :
             j1 < j2 => /\ selected[j1] # selected[j2]
                        /\ VolumeOf(selected[j1]) >= VolumeOf(selected[j2])
        /\ \A sym \in TradedSymbols :
             (\A j \in 1..Len(selected) : selected[j] # sym) =>
               \A j \in 1..Len(selected) : VolumeOf(selected[j]) >= VolumeOf(sym)
        /\ \A i \in 1..Len(batchCalls) :
             /\ Len(batchCalls[i].symbols) \in 1..BATCH_SIZE
             /\ i < Len(batchCalls) => Len(batchCalls[i].symbols) = BATCH_SIZE

\* three traded entries of volumes 1, 2, 2 in batches of two: the two of
\* volume 2 first, in the order of the list, then the one of volume 1
C37_Witness ==
  /\ handlerPc = "batches"
  /\ TOP_N = 3
  /\ BATCH_SIZE = 2
  /\ Len(batchCalls) = 2
  /\ batchCalls[1].symbols = <<"ETHBTC", "BNBUSDT">>
  /\ batchCalls[2].symbols = <<"BTCUSDT">>

\* C40: an answer of status 500 has no cache directive, no debug status and
\* no other header of the handler; a step sets headers only when it sends
\* the 200 answer, after every batch has settled.
C40_ErrorHasNoHeaders ==
  /\ [](response.status = 500 =>
          /\ response.headers = {}
          /\ response.cacheControl = ""
          /\ response.debugStatus = "")
  /\ [][response'.headers # response.headers =>
          /\ response'.status = 200
          /\ \A i \in 1..Len(batchCalls) : batchCalls[i].settled]_vars

\* the 24h request failed and the error answer was sent
C40_Witness ==
  /\ handlerPc = "done"
  /\ response.status = 500
  /\ response.logs # <<>>
  /\ response.headers = {}
  /\ batchCalls = <<>>

\* C38: a request the handler has taken is eventually answered, with status
\* 200 or 500; an answer that was sent is never replaced or followed by
\* another; and in every state the armed timeout timers are those of the
\* requests still in flight, so that a request that settles leaves no timer
\* behind and none is left once every request has settled.
C38_OneResponse ==
  /\ [][response' # response =>
          /\ response.status = 0
          /\ response'.status \in {200, 500}
          /\ handlerPc' = "done"]_vars
  /\ [](handlerPc = "done" <=> response.status # 0)
  /\ [](timeoutTimers = inFlight)
  /\ (handlerPc = "ticker") ~>
       (handlerPc = "done" /\ response.status \in {200, 500} /\ timeoutTimers = 0)

\* the 200 answer was sent while a request of the first batch, left behind
\* by the thrown failure of the other, was in flight with its timer armed
C38_Witness ==
  /\ handlerPc = "done"
  /\ response.status = 200
  /\ Len(batchCalls) = 2
  /\ batchCalls[1].res1h.kind = "throws"
  /\ inFlight = 1
  /\ timeoutTimers = 1

\* the symbols of the entries of a 24h ticker body
ListedSymbols(resp) ==
  {resp.items[k].symbol : k \in {j \in 1..Len(resp.items) : ~resp.items[j].isNull}}

\* the records of the symbols outside of syms are as they were, and a record
\* that was created has neither window set
OnlyWrites(syms) ==
  /\ \A sym \in Symbols \ syms :
       /\ Has(tickerMap', sym) = Has(tickerMap, sym)
       /\ Has(tickerMap, sym) => tickerMap'[sym] = tickerMap[sym]
  /\ \A sym \in syms :
       (Has(tickerMap', sym) /\ ~Has(tickerMap, sym)) =>
         /\ tickerMap'[sym].changePercent1h = Undefined
         /\ tickerMap'[sym].changePercent4h = Undefined

\* C35 (as claimed): the step of the two-call snapshot that handles the 24h
\* ticker body adds or changes records only of symbols that are in the body
\* and whose status in the exchangeInfo body is TRADING, a record it creates
\* has no 1h and no 4h value, and the store is left as it is when the
\* exchangeInfo call or the 24h call has failed: the request is rejected, its
\* status is not a success, its body does not decode, or reading its entries
\* throws.
C35_FallbackWritesTradingOnly ==
  [][(Len(snapRuns') = Len(snapRuns) /\ snapRuns' # snapRuns) =>
       \A r \in {x \in 1..Len(snapRuns) : snapRuns'[x] # snapRuns[x]} :
         /\ \A info \in InfoResponses :
              FallbackInfoResponse(r, info, 0) =>
                /\ tickerMap' = tickerMap
                /\ info.kind # "ok" => snapRuns'[r].pc = "done"
                /\ info.kind = "ok" =>
                     snapRuns'[r].trading = {sym \in Symbols : info.status[sym] = "TRADING"}
         /\ \A resp \in TickerResponses :
              /\ FallbackTickerResponse(r, resp, 0, 0) =>
                   /\ ~SourceSucceeded(resp) => tickerMap' = tickerMap
                   /\ OnlyWrites(ListedSymbols(resp) \cap snapRuns[r].trading)
              /\ \A info \in InfoResponses :
                   ParallelResponse(r, info, resp, 0) =>
                     /\ (info.kind # "ok" \/ ~SourceSucceeded(resp)) => tickerMap' = tickerMap
                     /\ info.kind = "ok" =>
                          OnlyWrites(ListedSymbols(resp)
                                       \cap {sym \in Symbols : info.status[sym] = "TRADING"})]_vars

\* the two characters stand next to each other in the name
Contains(name, a, b) == \E k \in 1..(Len(name) - 1) : name[k] = a /\ name[k + 1] = b

\* the window of a stream name as the claim gives it
WindowOf(name) ==
  IF Contains(name, "1", "h") THEN "1h"
  ELSE IF Contains(name, "4", "h") THEN "4h"
  ELSE "24h"

\* the fields an item of a window writes besides the price
WindowField(w) ==
  IF w = "1h" THEN {"changePercent1h"}
  ELSE IF w = "4h" THEN {"changePercent4h"}
  ELSE {"volume", "changePercent24h"}

\* C32: a frame with a stream name is merged under one window, 1h when the
\* name contains "1h", otherwise 4h when it contains "4h", otherwise 24h:
\* for every symbol of the frame the price is that of its last item, the
\* fields of that window are those of its last item and the fields of the
\* other windows are as before; !ticker@arr, !ticker_1h@arr and
\* !ticker_4h@arr are 24h, 1h and 4h.
C32_OneWindowPerFrame ==
  [][frames' = frames + 1 =>
       \A frame \in NamedFrames :
         FrameStep(frame) =>
           LET w == WindowOf(frame.stream)
           IN  /\ frame.stream = STREAM_24H => w = "24h"
               /\ frame.stream = STREAM_1H => w = "1h"
               /\ frame.stream = STREAM_4H => w = "4h"
               /\ \A sym \in FrameSymbols(frame) :
                    LET item == LastFor(frame, sym)
                    IN  /\ Has(tickerMap', sym)
                        /\ tickerMap'[sym].price = Expected(item.c)
                        /\ \A field \in {"volume", "changePercent24h", "changePercent1h",
                                         "changePercent4h"} :
                             tickerMap'[sym][field] =
                               (IF field \in WindowField(w)
                                  THEN (IF field = "volume" THEN Expected(item.q)
                                        ELSE Expected(item.P))
                                  ELSE FieldBefore(sym, field))]_vars

\* one frame whose name holds "1h" has been merged into the empty store: its
\* item created the record and wrote the price and the 1h field only
C32_Witness ==
  /\ frames = 1
  /\ DOMAIN tickerMap = {"BTCUSDT"}
  /\ lastItem["BTCUSDT"].P1h = TICK_B.P
  /\ lastItem["BTCUSDT"].P4h = NoText
  /\ tickerMap["BTCUSDT"].price = Num(2 * Scale)
  /\ tickerMap["BTCUSDT"].changePercent1h = Num(0 - (Scale + Scale \div 4))
  /\ tickerMap["BTCUSDT"].changePercent4h = Undefined
  /\ tickerMap["BTCUSDT"].volume = Num(0)

\* the step filled a window field of the record of the symbol that had none
Filled(sym) ==
  /\ Has(tickerMap, sym) /\ Has(tickerMap', sym)
  /\ \E field \in {"changePercent1h", "changePercent4h"} :
       tickerMap[sym][field] = Undefined /\ tickerMap'[sym][field] # Undefined

\* C39: when a fetchDetailedStats call settles the store keeps its symbols;
\* for a symbol without a record the store is unchanged and no subscriber is
\* invoked; for a symbol with a record the store changes and subscribers are
\* invoked only when one of the two fields was filled, and what is invoked
\* is one pass over the subscriber list.
C39_LazyFetchNeverAdds ==
  [][\A sym \in Symbols :
       lazyCalls'[sym] = lazyCalls[sym] - 1 =>
         /\ DOMAIN tickerMap' = DOMAIN tickerMap
         /\ ~Has(tickerMap, sym) => (tickerMap' = tickerMap /\ invoked' = <<>>)
         /\ ~Filled(sym) => (tickerMap' = tickerMap /\ invoked' = <<>>)
         /\ \A other \in DOMAIN tickerMap \ {sym} : tickerMap'[other] = tickerMap[other]
         /\ Len(invoked') <= Len(subscribers)
         /\ invoked' = SubSeq(subscribers, 1, Len(invoked'))]_vars

\* a call settled for a record the stream had created: both fields filled from
\* the results and the one subscriber invoked once
C39_Witness ==
  /\ frames = 1
  /\ Has(tickerMap, "BTCUSDT")
  /\ tickerMap["BTCUSDT"].changePercent1h = Num(3 * Scale + Scale \div 4)
  /\ tickerMap["BTCUSDT"].changePercent4h = Num(3 * Scale + Scale \div 4)
  /\ lastItem["BTCUSDT"].other
  /\ Len(subscribers) = 1
  /\ invoked = subscribers
  /\ lazyCalls["BTCUSDT"] = 0

\* the step leaves the record of the symbol with a value in the field where
\* there was no record or no value
Gains(sym, field) ==
  /\ Has(tickerMap', sym)
  /\ tickerMap'[sym][field] # Undefined
  /\ (~Has(tickerMap, sym) \/ tickerMap[sym][field] = Undefined)

\* the step is one of a source that reports the window of the field for the
\* symbol, and the field holds what it reported
Reported(sym, field) ==
  LET w == IF field = "changePercent1h" THEN "1h" ELSE "4h"
  IN  \/ /\ frames' = frames + 1
         /\ \E frame \in SimpleFrames :
              /\ FrameStep(frame)
              /\ WindowOf(frame.stream) = w
              /\ sym \in FrameSymbols(frame)
              /\ tickerMap'[sym][field] = Expected(LastFor(frame, sym).P)
      \/ \E r \in 1..MaxConnects, resp \in SimpleAggResponses :
           /\ AggregatorResponse(r, resp, 0)
           /\ \E i \in 1..Len(resp.items) :
                /\ ~resp.items[i].isNull
                /\ resp.items[i].symbol = sym
                /\ resp.items[i][field] # NullNum
                /\ tickerMap'[sym][field] = resp.items[i][field]
      \/ \E res1h, res4h \in WindowResponses :
           /\ DetailsSettle(sym, res1h, res4h, 0)
           /\ windowResult(IF w = "1h" THEN res1h ELSE res4h)
           /\ tickerMap'[sym][field] =
                Expected((IF w = "1h" THEN res1h ELSE res4h).priceChangePercent)

\* C33: changePercent1h and changePercent4h of a record get a value only in a
\* step of a source that reports that window for the symbol, an item of a
\* frame of that window, a value of the aggregator snapshot that is not null
\* or a lazy fetch result, and the value is the reported one; a record that
\* any other step creates has the field absent.
C33_WindowFieldsNeedSource ==
  [][\A sym \in Symbols, field \in {"changePercent1h", "changePercent4h"} :
       Gains(sym, field) => Reported(sym, field)]_vars

\* a record created by one 4h frame: the 4h field is the item's, the 1h field
\* is absent, the 24h fields are the zero of a new record
C33_Witness ==
  /\ frames = 1
  /\ DOMAIN tickerMap = {"BTCUSDT"}
  /\ ~lastItem["BTCUSDT"].other
  /\ tickerMap["BTCUSDT"].changePercent4h = Num(Scale \div 2)
  /\ tickerMap["BTCUSDT"].changePercent1h = Undefined
  /\ tickerMap["BTCUSDT"].changePercent24h = Num(0)

\* C34: every record of the store has the symbol of its key, and no step
\* takes a key away from the store: frames, snapshot steps, lazy fetches, the
\* socket closing and reconnecting, disconnect(), subscribe and unsubscribe.
C34_KeysStayAndMatch ==
  /\ [](\A k \in DOMAIN tickerMap : tickerMap[k].symbol = k)
  /\ [][DOMAIN tickerMap \subseteq DOMAIN tickerMap']_vars

\* the store holds both symbols, the first written by a snapshot or a lazy
\* fetch and the second by the stream alone, and disconnect() has run
C34_Witness ==
  /\ DOMAIN tickerMap = Symbols
  /\ disconnected
  /\ frames > 0
  /\ lastItem["BTCUSDT"].other
  /\ ~lastItem["ETHBTC"].other
  /\ \A k \in Symbols : tickerMap[k].symbol = k

====
